---- MODULE Spec2Model ----
(***************************************************************************)
(* A model of pydiag's block-ensemble layer: the Ensemble partition, the   *)
(* per-block containers (Scalar, Array, EnsembleArray, EnsembleScalar,     *)
(* EnsembleTriDiag) and the block-wise algebra functions.                  *)
(*                                                                         *)
(* Python values are records tagged by their type.  A str is the sequence  *)
(* of its code points, so that str(), int() and the ordering of sorted()   *)
(* are computed the way the interpreter computes them.  Objects compared   *)
(* by identity (Ensemble) live in `heap` and are referred to by index.     *)
(***************************************************************************)
EXTENDS FiniteSets, Integers, Sequences, TLC

VARIABLES heap, call, ret

vars == <<heap, call, ret>>

(***************************************************************************)
(* Bounds                                                                  *)
(***************************************************************************)
MaxAxes == 2

MaxAxisLen == 2

MaxEns == 2

MaxOperands == 2

MaxDim == 3

(* the interpreter's limit on the depth of nested calls *)
RecursionLimit == 3

(***************************************************************************)
(* Python values                                                           *)
(***************************************************************************)
PyStr(s) == [t |-> "str", s |-> s]

PyInt(n) == [t |-> "int", n |-> n]

PyTuple(items) == [t |-> "tuple", items |-> items]

PyList(items) == [t |-> "list", items |-> items]

Raise(type, msg) == [status |-> type, msg |-> msg]

Ok(v) == [status |-> "ok", value |-> v]

IsOk(r) == r.status = "ok"

(* r itself when r is an exception, F of its value otherwise *)
Bind(r, F(_)) == IF IsOk(r) THEN F(r.value) ELSE r

Range(seq) == {seq[i] : i \in 1..Len(seq)}

SeqsUpTo(S, n) == UNION {[1..k -> S] : k \in 0..n}

NoCall == [op |-> "none"]

NoRet == [status |-> "none"]

(* the strings "a", "x", "1", "3" and "1a" as code points *)
StrA == <<97>>

StrX == <<120>>

Str1 == <<49>>

Str3 == <<51>>

Str1A == <<49, 97>>

RECURSIVE Digits(_)
Digits(n) == IF n < 10 THEN <<48 + n>> ELSE Digits(n \div 10) \o <<48 + (n % 10)>>

(* str(obj) of a str or of a non-negative int *)
Str(obj) == IF obj.t = "str" THEN obj.s ELSE Digits(obj.n)

IsDigits(s) == Len(s) > 0 /\ \A i \in 1..Len(s) : s[i] \in 48..57

RECURSIVE ParseDigits(_)
ParseDigits(s) ==
  IF Len(s) = 0 THEN 0
  ELSE 10 * ParseDigits(SubSeq(s, 1, Len(s) - 1)) + (s[Len(s)] - 48)

(* int(obj): an int is itself, a str of decimal digits is parsed, anything *)
(* else raises                                                             *)
IntOf(obj) ==
  IF obj.t = "int" THEN Ok(obj.n)
  ELSE IF obj.t = "str" /\ IsDigits(obj.s) THEN Ok(ParseDigits(obj.s))
  ELSE Raise("ValueError", "invalid literal for int()")

(* iter(arg): a list yields its items, a str its one-character strs, an    *)
(* int is not iterable                                                     *)
Iterable(arg) == arg.t \in {"list", "tuple", "str"}

IterItems(arg) ==
  IF arg.t = "str" THEN [i \in 1..Len(arg.s) |-> PyStr(<<arg.s[i]>>)]
  ELSE arg.items

(* Python's < on str and on tuples of str *)
RECURSIVE StrLess(_, _)
StrLess(s, u) ==
  IF Len(u) = 0 THEN FALSE
  ELSE IF Len(s) = 0 THEN TRUE
  ELSE IF s[1] # u[1] THEN s[1] < u[1]
  ELSE StrLess(Tail(s), Tail(u))

RECURSIVE TupleLess(_, _)
TupleLess(a, b) ==
  IF Len(b) = 0 THEN FALSE
  ELSE IF Len(a) = 0 THEN TRUE
  ELSE IF a[1] # b[1] THEN StrLess(a[1], b[1])
  ELSE TupleLess(Tail(a), Tail(b))

RECURSIVE InsertSorted(_, _)
InsertSorted(x, seq) ==
  IF Len(seq) = 0 THEN <<x>>
  ELSE IF TupleLess(x, seq[1]) THEN <<x>> \o seq
  ELSE <<seq[1]>> \o InsertSorted(x, Tail(seq))

(* sorted(list of tuples) *)
RECURSIVE Sorted(_)
Sorted(seq) ==
  IF Len(seq) = 0 THEN <<>>
  ELSE InsertSorted(seq[Len(seq)], Sorted(SubSeq(seq, 1, Len(seq) - 1)))

(***************************************************************************)
(* OrderedDict: a sequence of <<key, value>> pairs with distinct keys, in  *)
(* insertion order                                                         *)
(***************************************************************************)
ODKeys(od) == [i \in 1..Len(od) |-> od[i][1]]

ODValues(od) == [i \in 1..Len(od) |-> od[i][2]]

ODHas(od, k) == \E i \in 1..Len(od) : od[i][1] = k

ODGet(od, k) == od[CHOOSE i \in 1..Len(od) : od[i][1] = k][2]

(* od[k] = v keeps the position of a key that is already present *)
ODSet(od, k, v) ==
  IF ODHas(od, k)
  THEN [i \in 1..Len(od) |-> IF od[i][1] = k THEN <<k, v>> ELSE od[i]]
  ELSE Append(od, <<k, v>>)

(***************************************************************************)
(* Ensemble                                                                *)
(***************************************************************************)
(* one element of an axis, with TypeError for a tuple of the wrong length *)
FormatObjTypeError(obj, default_degeneracy) ==
  IF obj.t = "tuple"
  THEN IF Len(obj.items) # 2
       THEN Raise("TypeError", "Invalid tuple length specifying (block, degeneracy)")
       ELSE IF IsOk(IntOf(obj.items[2]))
            THEN Ok(<<Str(obj.items[1]), IntOf(obj.items[2]).value>>)
            ELSE Raise("TypeError", "Invalid tuple types specifying (block, degeneracy)")
  ELSE Ok(<<Str(obj), default_degeneracy>>)

(* one element of an axis, to (str, int) *)
FormatObj(obj, default_degeneracy) ==
  IF obj.t = "tuple"
  THEN IF Len(obj.items) # 2
       THEN Raise("ValueError", "Invalid tuple length specifying (block, degeneracy)")
       ELSE IF IsOk(IntOf(obj.items[2]))
            THEN Ok(<<Str(obj.items[1]), IntOf(obj.items[2]).value>>)
            ELSE Raise("TypeError", "Invalid tuple types specifying (block, degeneracy)")
  ELSE Ok(<<Str(obj), default_degeneracy>>)

RECURSIVE FormatItems(_, _)
FormatItems(items, default_degeneracy) ==
  IF Len(items) = 0 THEN Ok(<<>>)
  ELSE LET first == FormatObj(items[1], default_degeneracy)
       IN IF ~IsOk(first) THEN first
          ELSE LET rest == FormatItems(Tail(items), default_degeneracy)
               IN IF ~IsOk(rest) THEN rest
                  ELSE Ok(<<first.value>> \o rest.value)

FormatArg(arg, default_degeneracy) ==
  IF ~Iterable(arg) THEN Raise("TypeError", "block specifier not iterable")
  ELSE FormatItems(IterItems(arg), default_degeneracy)

RECURSIVE FormatArgs(_, _)
FormatArgs(args, default_degeneracy) ==
  IF Len(args) = 0 THEN Ok(<<>>)
  ELSE LET first == FormatArg(args[1], default_degeneracy)
       IN IF ~IsOk(first) THEN first
          ELSE LET rest == FormatArgs(Tail(args), default_degeneracy)
               IN IF ~IsOk(rest) THEN rest
                  ELSE Ok(<<first.value>> \o rest.value)

RECURSIVE Flatten(_)
Flatten(seqs) == IF Len(seqs) = 0 THEN <<>> ELSE seqs[1] \o Flatten(Tail(seqs))

\* itertools.product over the formatted axes: the last axis varies fastest
RECURSIVE Product(_)
Product(axes) ==
  IF Len(axes) = 0 THEN << <<>> >>
  ELSE LET rest == Product(Tail(axes))
       IN Flatten([i \in 1..Len(axes[1]) |->
                     [j \in 1..Len(rest) |-> <<axes[1][i]>> \o rest[j]]])

RECURSIVE DegProduct(_)
DegProduct(blocks_degeneracies) ==
  IF Len(blocks_degeneracies) = 0 THEN 1
  ELSE DegProduct(SubSeq(blocks_degeneracies, 1, Len(blocks_degeneracies) - 1))
       * blocks_degeneracies[Len(blocks_degeneracies)][2]

BlockOf(blocks_degeneracies) ==
  [i \in 1..Len(blocks_degeneracies) |-> blocks_degeneracies[i][1]]

(* the loop over the product: appends to blocks, assigns into degeneracy *)
RECURSIVE Enumerate(_, _)
Enumerate(prod, acc) ==
  IF Len(prod) = 0 THEN acc
  ELSE Enumerate(Tail(prod),
                 [blocks |-> Append(acc.blocks, BlockOf(prod[1])),
                  degeneracy |-> ODSet(acc.degeneracy, BlockOf(prod[1]),
                                       DegProduct(prod[1]))])

BlocksOrder(blocks) == Sorted(blocks)

\* Ensemble.__init__ with its positional axes and default_degeneracy
EnsembleInit(args, default_degeneracy) ==
  LET args_formatted == FormatArgs(args, default_degeneracy)
  IN IF ~IsOk(args_formatted) THEN args_formatted
     ELSE LET e == Enumerate(Product(args_formatted.value),
                             [blocks |-> <<>>, degeneracy |-> <<>>])
          IN Ok([blocks |-> BlocksOrder(e.blocks), degeneracy |-> e.degeneracy])

(* list(ensemble): Ensemble.__iter__ *)
EnsembleIter(e) == e.degeneracy

(***************************************************************************)
(* Inputs of the Ensemble constructor                                      *)
(***************************************************************************)
RawObjs ==
  { PyStr(StrA), PyInt(1),
    PyTuple(<<PyStr(StrA), PyInt(2)>>),
    PyTuple(<<PyInt(1), PyStr(Str3)>>),
    PyTuple(<<PyStr(StrA)>>),
    PyTuple(<<PyStr(StrA), PyStr(StrX)>>) }

RawAxes ==
  {PyList(items) : items \in SeqsUpTo(RawObjs, MaxAxisLen)}
    \cup {PyInt(5), PyStr(Str1A)}

ArgLists == SeqsUpTo(RawAxes, MaxAxes)

DefaultDegs == {1, 3}

(***************************************************************************)
(* Operations on Ensembles                                                 *)
(***************************************************************************)
New(args, default_degeneracy) ==
  /\ Len(heap) < MaxEns
  /\ LET r == EnsembleInit(args, default_degeneracy)
     IN /\ call' = [op |-> "Ensemble", args |-> args,
                    default_degeneracy |-> default_degeneracy]
        /\ IF IsOk(r)
           THEN /\ heap' = Append(heap, r.value)
                /\ ret' = Ok(Len(heap) + 1)
           ELSE /\ heap' = heap
                /\ ret' = r

\* the one constructor call of a session of SpecEnsemble
NewEnsemble ==
  /\ call = NoCall
  /\ \E args \in ArgLists, dd \in DefaultDegs : New(args, dd)

Iterate ==
  \E e \in 1..Len(heap) :
    /\ call' = [op |-> "iter", e |-> e]
    /\ ret' = Ok(EnsembleIter(heap[e]))
    /\ heap' = heap

Init ==
  /\ heap = <<>>
  /\ call = NoCall
  /\ ret = NoRet

NextEnsemble == NewEnsemble \/ Iterate

SpecEnsemble == Init /\ [][NextEnsemble]_vars

(***************************************************************************)
(* Claims about Ensemble                                                   *)
(***************************************************************************)
RECURSIVE LenProduct(_)
LenProduct(seqs) ==
  IF Len(seqs) = 0 THEN 1 ELSE Len(seqs[1]) * LenProduct(Tail(seqs))

MaxLen(seqs) ==
  IF Len(seqs) = 0 THEN 0
  ELSE CHOOSE n \in {Len(seqs[i]) : i \in 1..Len(seqs)} :
         \A i \in 1..Len(seqs) : Len(seqs[i]) <= n

(* one position chosen on every axis *)
Choices(axes) ==
  {c \in [1..Len(axes) -> 1..MaxLen(axes)] : \A i \in 1..Len(axes) : c[i] <= Len(axes[i])}

NoDuplicates(seq) == \A i, j \in 1..Len(seq) : i # j => seq[i] # seq[j]

IsSorted(seq) == \A i \in 1..(Len(seq) - 1) : ~TupleLess(seq[i + 1], seq[i])

Constructed == call.op = "Ensemble" /\ IsOk(ret)

\* C1: an accepted axis specification yields product-of-axis-lengths many
\* pairwise distinct block keys, `blocks` and `degeneracy` hold the same keys,
\* and the degeneracy of a block is the product of the degeneracies of its
\* components.
C1_ProductOfDistinctBlocks ==
  Constructed =>
    LET e == heap[ret.value]
        axes == FormatArgs(call.args, call.default_degeneracy).value
    IN /\ Len(e.blocks) = LenProduct(axes)
       /\ NoDuplicates(e.blocks)
       /\ Cardinality(Range(e.blocks)) = LenProduct(axes)
       /\ Range(e.blocks) = Range(ODKeys(e.degeneracy))
       /\ Len(e.degeneracy) = Len(e.blocks)
       /\ \A c \in Choices(axes) :
            LET comps == [i \in 1..Len(axes) |-> axes[i][c[i]]]
            IN ODGet(e.degeneracy, BlockOf(comps)) = DegProduct(comps)

\* C2: iteration yields the (block, degeneracy) pairs in sorted order of the
\* block keys: the keys iterated are the sorted `blocks` list, whatever the
\* order of the labels given to the constructor.  Stated for the Ensembles
\* whose `blocks` list is free of duplicates, where the repeated keys of C1
\* play no part.
C2_IterationSorted ==
  (call.op = "iter" /\ NoDuplicates(heap[call.e].blocks)) =>
    /\ ODKeys(ret.value) = heap[call.e].blocks
    /\ IsSorted(ODKeys(ret.value))

(***************************************************************************)
(* Numbers: exact rationals <<numerator, denominator>>, denominator > 0    *)
(***************************************************************************)
Abs(n) == IF n < 0 THEN -n ELSE n

RECURSIVE Gcd(_, _)
Gcd(m, n) == IF n = 0 THEN m ELSE Gcd(n, m % n)

QNorm(n, d) ==
  LET g == Gcd(Abs(n), Abs(d))
  IN IF d < 0 THEN <<(-n) \div g, (-d) \div g>> ELSE <<n \div g, d \div g>>

Q(n) == <<n, 1>>

QAdd(x, y) == QNorm(x[1] * y[2] + y[1] * x[2], x[2] * y[2])

QSub(x, y) == QNorm(x[1] * y[2] - y[1] * x[2], x[2] * y[2])

QMul(x, y) == QNorm(x[1] * y[1], x[2] * y[2])

QDiv(x, y) == QNorm(x[1] * y[2], x[2] * y[1])

QNeg(x) == <<-x[1], x[2]>>

QLess(x, y) == x[1] * y[2] < y[1] * x[2]

(* the arithmetic operators +, -, *, / on two numbers *)
Arith(op, x, y) ==
  CASE op = "add" -> QAdd(x, y)
    [] op = "sub" -> QSub(x, y)
    [] op = "mul" -> QMul(x, y)
    [] op = "div" -> QDiv(x, y)

PyNone == [t |-> "None"]

PyNum(q) == [t |-> "float", q |-> q]

IsNumber(x) == x.t \in {"int", "float"}

NumQ(x) == IF x.t = "int" THEN Q(x.n) ELSE x.q

(* numpy.isscalar *)
NpIsScalar(x) == IsNumber(x)

(***************************************************************************)
(* numpy.ndarray: a shape and the elements in row-major order              *)
(***************************************************************************)
NdArray(shape, data) == [t |-> "ndarray", shape |-> shape, data |-> data]

Vec(seq) == NdArray(<<Len(seq)>>, seq)

Ndim(arr) == Len(arr.shape)

RECURSIVE SizeOf(_)
SizeOf(shape) == IF Len(shape) = 0 THEN 1 ELSE shape[1] * SizeOf(Tail(shape))

(* numpy.array(obj): an array is copied, a number becomes a 0-d array *)
NpArray(obj) == IF obj.t = "ndarray" THEN obj ELSE NdArray(<<>>, <<NumQ(obj)>>)

(* 0-based multi-index of the 0-based flat position k, and back *)
RECURSIVE Unravel(_, _)
Unravel(k, shape) ==
  IF Len(shape) = 0 THEN <<>>
  ELSE LET inner == SizeOf(Tail(shape))
       IN <<k \div inner>> \o Unravel(k % inner, Tail(shape))

RECURSIVE Ravel(_, _)
Ravel(idx, shape) ==
  IF Len(shape) = 0 THEN 0
  ELSE idx[1] * SizeOf(Tail(shape)) + Ravel(Tail(idx), Tail(shape))

PadShape(shape, n) ==
  [i \in 1..n |-> IF i <= n - Len(shape) THEN 1 ELSE shape[i - (n - Len(shape))]]

MaxNat(m, n) == IF m < n THEN n ELSE m

(* arr (op) other with numpy's broadcasting of the two shapes *)
Elementwise(op, x, y) ==
  LET n == MaxNat(Ndim(x), Ndim(y))
      px == PadShape(x.shape, n)
      py == PadShape(y.shape, n)
  IN IF \E i \in 1..n : px[i] # py[i] /\ px[i] # 1 /\ py[i] # 1
     THEN Raise("ValueError", "operands could not be broadcast together")
     ELSE LET shape == [i \in 1..n |-> IF px[i] = 1 THEN py[i] ELSE px[i]]
              At(arr, pshape, idx) ==
                arr.data[Ravel([i \in 1..n |-> IF pshape[i] = 1 THEN 0 ELSE idx[i]],
                               pshape) + 1]
          IN Ok(NdArray(shape,
                  [k \in 1..SizeOf(shape) |->
                     LET idx == Unravel(k - 1, shape)
                     IN Arith(op, At(x, px, idx), At(y, py, idx))]))

RECURSIVE QSum(_)
QSum(seq) == IF Len(seq) = 0 THEN Q(0) ELSE QAdd(seq[1], QSum(Tail(seq)))

(* numpy.dot of two 1-d arrays *)
NpDot(x, y) ==
  IF x.shape # y.shape THEN Raise("ValueError", "shapes not aligned")
  ELSE Ok(NdArray(<<>>, <<QSum([i \in 1..Len(x.data) |-> QMul(x.data[i], y.data[i])])>>))

(* numpy.outer, numpy.add.outer, numpy.subtract.outer of two 1-d arrays *)
NpOuterWith(op, x, y) ==
  LET n == Len(x.data)
      m == Len(y.data)
  IN Ok(NdArray(<<n, m>>,
          [k \in 1..(n * m) |->
             Arith(op, x.data[((k - 1) \div m) + 1], y.data[((k - 1) % m) + 1])]))

(* numpy.einsum for the subscripts "i->i" (one operand) and "i,i->" (two) *)
NpEinsum(subscripts, arrs) ==
  IF subscripts = "i->i" /\ Len(arrs) = 1 THEN Ok(arrs[1])
  ELSE IF subscripts = "i,i->" /\ Len(arrs) = 2 /\ arrs[1].shape = arrs[2].shape
       THEN NpDot(arrs[1], arrs[2])
       ELSE Raise("ValueError", "einsum operands do not match the subscripts")

(***************************************************************************)
(* Array and EnsembleArray containers                                      *)
(***************************************************************************)
EnsembleRef(id) == [t |-> "Ensemble", id |-> id]

OrderedDict(od) == [t |-> "OrderedDict", od |-> od]

(* data[block], or data[block][tag] when a tag is given *)
DataAt(od, block, tag) ==
  IF ~ODHas(od, block) THEN Raise("KeyError", "block")
  ELSE IF tag.t = "None" THEN Ok(ODGet(od, block))
  ELSE IF ~ODHas(ODGet(od, block).od, tag.s) THEN Raise("KeyError", "tag")
  ELSE Ok(ODGet(ODGet(od, block).od, tag.s))

(* for block in data: self.array[block] = np.array(data[block]) *)
BuildArraysOfData(items, od, tag, acc) ==
  Ok([i \in 1..Len(od) |-> <<od[i][1], NpArray(od[i][2])>>])

(* for block, deg in ensemble: self.array[block] = np.array(...) *)
RECURSIVE BuildArrays(_, _, _, _)
BuildArrays(items, od, tag, acc) ==
  IF Len(items) = 0 THEN Ok(acc)
  ELSE LET dt == DataAt(od, items[1][1], tag)
       IN IF ~IsOk(dt) THEN dt
          ELSE BuildArrays(Tail(items), od, tag,
                           ODSet(acc, items[1][1], NpArray(dt.value)))

(* Array.__init__ and EnsembleArray.__init__ (dtype=None) *)
ArrayInit(cls, ensemble, data, tag) ==
  IF ensemble.t # "Ensemble"
  THEN Raise("TypeError", "ensemble is not of type pydiag.Ensemble")
  ELSE IF data.t # "OrderedDict"
  THEN Raise("TypeError", "data is not of type OrderedDict")
  ELSE IF tag.t # "None" /\ tag.t # "str"
  THEN Raise("TypeError", "tag needs to be a string")
  ELSE LET built == BuildArrays(EnsembleIter(heap[ensemble.id]), data.od, tag, <<>>)
       IN IF ~IsOk(built) THEN built
          ELSE LET ndims == {Ndim(arr) : arr \in Range(ODValues(built.value))}
               IN IF Cardinality(ndims) # 1
                  THEN Raise("ValueError", "not all arrays have same number of dimensions")
                  ELSE Ok([t |-> cls, ensemble |-> ensemble, array |-> built.value,
                           ndim |-> CHOOSE n \in ndims : TRUE])

(***************************************************************************)
(* Scalar and EnsembleScalar containers                                    *)
(***************************************************************************)
(* the value stored for one block by Scalar.__init__ (dtype=None) *)
ScalarValue(dt) ==
  IF dt.t = "None" THEN PyNone
  ELSE IF dt.t = "ndarray" THEN PyNum(dt.data[1])
  ELSE dt

RECURSIVE BuildScalars(_, _, _, _)
BuildScalars(items, od, tag, acc) ==
  IF Len(items) = 0 THEN Ok(acc)
  ELSE IF tag.t # "None" /\ tag.t # "str"
  THEN Raise("TypeError", "tag needs to be a string")
  ELSE LET dt == DataAt(od, items[1][1], tag)
       IN IF ~IsOk(dt) THEN dt
          ELSE BuildScalars(Tail(items), od, tag,
                            ODSet(acc, items[1][1], ScalarValue(dt.value)))

(* Scalar.__init__ (dtype=None) *)
ScalarInit(ensemble, data, tag) ==
  IF ensemble.t # "Ensemble"
  THEN Raise("TypeError", "ensemble is not of type pydiag.Ensemble")
  ELSE IF data.t \notin {"OrderedDict", "dict"}
  THEN Raise("TypeError", "data is not of dictionary type")
  ELSE LET built == BuildScalars(EnsembleIter(heap[ensemble.id]), data.od, tag, <<>>)
       IN IF ~IsOk(built) THEN built
          ELSE Ok([t |-> "Scalar", ensemble |-> ensemble, scalar |-> built.value])

(* for block, deg in ensemble: self.scalar[block] = data[block]; the tag is *)
(* checked but not used                                                     *)
RECURSIVE BuildEnsembleScalars(_, _, _)
BuildEnsembleScalars(items, od, acc) ==
  IF Len(items) = 0 THEN Ok(acc)
  ELSE IF ~ODHas(od, items[1][1]) THEN Raise("KeyError", "block")
  ELSE BuildEnsembleScalars(Tail(items), od,
                            ODSet(acc, items[1][1], ODGet(od, items[1][1])))

(* EnsembleScalar.__init__ (dtype=None) *)
EnsembleScalarInit(ensemble, data, tag) ==
  IF ensemble.t # "Ensemble"
  THEN Raise("TypeError", "ensemble is not of type pydiag.Ensemble")
  ELSE IF data.t \notin {"OrderedDict", "dict"}
  THEN Raise("TypeError", "data is not of dictionary type")
  ELSE IF tag.t # "None" /\ tag.t # "str"
  THEN Raise("TypeError", "tag needs to be a string")
  ELSE LET built == BuildEnsembleScalars(EnsembleIter(heap[ensemble.id]), data.od, <<>>)
       IN IF ~IsOk(built) THEN built
          ELSE Ok([t |-> "EnsembleScalar", ensemble |-> ensemble,
                   scalar |-> built.value])

(***************************************************************************)
(* Block algebra                                                           *)
(***************************************************************************)
(* Ensemble defines neither __eq__ nor __hash__: == and != compare, and    *)
(* set() hashes, the identity of the object                                *)
EnsembleEq(a, b) == a.id = b.id

EnsembleNe(a, b) == ~EnsembleEq(a, b)

(* the outcome of an algebra function, with the number of blocks whose     *)
(* data it has read                                                        *)
AlgResult(out, work) == [out |-> out, work |-> work]

BlockProduct(fn, x, y) ==
  CASE fn = "dot" -> NpDot(x, y)
    [] fn = "outer" -> NpOuterWith("mul", x, y)
    [] fn = "add_outer" -> NpOuterWith("add", x, y)
    [] fn = "subtract_outer" -> NpOuterWith("sub", x, y)

(* for block, deg in a.ensemble: data[block] = fn(a.array[block], b.array[block]) *)
RECURSIVE BlockLoop(_, _, _, _, _, _)
BlockLoop(fn, items, a, b, data, work) ==
  IF Len(items) = 0 THEN AlgResult(Ok(data), work)
  ELSE LET block == items[1][1]
       IN IF "array" \notin DOMAIN a \/ "array" \notin DOMAIN b
          THEN AlgResult(Raise("AttributeError", "array"), work)
          ELSE IF ~ODHas(a.array, block) \/ ~ODHas(b.array, block)
          THEN AlgResult(Raise("KeyError", "block"), work)
          ELSE LET r == BlockProduct(fn, ODGet(a.array, block), ODGet(b.array, block))
               IN IF ~IsOk(r) THEN AlgResult(r, work + 1)
                  ELSE BlockLoop(fn, Tail(items), a, b,
                                 ODSet(data, block, r.value), work + 1)

BinaryOnArrays(fn, a, b) ==
  IF a.t = "Array" /\ b.t = "Array"
  THEN IF EnsembleNe(a.ensemble, b.ensemble)
       THEN AlgResult(Raise("ValueError", "a and b do not share the same ensemble"), 0)
       ELSE LET loop == BlockLoop(fn, EnsembleIter(heap[a.ensemble.id]), a, b, <<>>, 0)
            IN IF ~IsOk(loop.out) THEN loop
               ELSE AlgResult(ArrayInit("Array", a.ensemble,
                                        OrderedDict(loop.out.value), PyNone),
                              loop.work)
  ELSE AlgResult(Raise("TypeError", "inputs need to be ensemble.Array"), 0)

(* a dot that compares the ensembles only once the blocks are multiplied *)
DotCheckedLate(a, b) ==
  IF a.t = "Array" /\ b.t = "Array"
  THEN LET loop == BlockLoop("dot", EnsembleIter(heap[a.ensemble.id]), a, b, <<>>, 0)
       IN IF EnsembleNe(a.ensemble, b.ensemble)
          THEN AlgResult(Raise("ValueError", "a and b do not share the same ensemble"),
                         loop.work)
          ELSE IF ~IsOk(loop.out) THEN loop
          ELSE AlgResult(ArrayInit("Array", a.ensemble,
                                   OrderedDict(loop.out.value), PyNone),
                         loop.work)
  ELSE AlgResult(Raise("TypeError", "inputs need to be ensemble.Array"), 0)

Dot(a, b) == BinaryOnArrays("dot", a, b)

Outer(a, b) == BinaryOnArrays("outer", a, b)

AddOuter(a, b) == BinaryOnArrays("add_outer", a, b)

SubtractOuter(a, b) == BinaryOnArrays("subtract_outer", a, b)

(* ensemble_dot of ensemble_array.py *)
EnsembleArrayDot(a, b) ==
  IF EnsembleNe(a.ensemble, b.ensemble)
  THEN AlgResult(Raise("ValueError", "a and b do not share the same ensemble"), 0)
  ELSE LET loop == BlockLoop("dot", EnsembleIter(heap[a.ensemble.id]), a, b, <<>>, 0)
       IN IF ~IsOk(loop.out) THEN loop
          ELSE AlgResult(ArrayInit("EnsembleArray", a.ensemble,
                                   OrderedDict(loop.out.value), PyNone),
                         loop.work)

ContainerValues(c) == IF "array" \in DOMAIN c THEN c.array ELSE c.scalar

(* aa * bb of two stored scalars, and numpy.dot when one side is an array *)
ScalarTimes(aa, bb) ==
  IF ~IsNumber(aa) \/ ~IsNumber(bb)
  THEN Raise("TypeError", "unsupported operand type(s) for *")
  ELSE Ok(PyNum(QMul(NumQ(aa), NumQ(bb))))

MixedDot(aa, bb) ==
  IF aa.t = "ndarray" /\ bb.t = "ndarray" /\ Ndim(aa) = 1 /\ Ndim(bb) = 1
  THEN NpDot(aa, bb)
  ELSE IF (aa.t # "ndarray" /\ ~IsNumber(aa)) \/ (bb.t # "ndarray" /\ ~IsNumber(bb))
  THEN Raise("TypeError", "unsupported operand type(s) for *")
  ELSE Elementwise("mul", NpArray(aa), NpArray(bb))

(* for block, aa, bb in zip(a.keys(), a.values(), b.values()) *)
RECURSIVE ZipLoop(_, _, _, _, _)
ZipLoop(scalars, av, bv, data, work) ==
  IF Len(av) = 0 \/ Len(bv) = 0 THEN AlgResult(Ok(data), work)
  ELSE LET r == IF scalars THEN ScalarTimes(av[1][2], bv[1][2])
                ELSE MixedDot(av[1][2], bv[1][2])
       IN IF ~IsOk(r) THEN AlgResult(r, work + 1)
          ELSE ZipLoop(scalars, Tail(av), Tail(bv),
                       ODSet(data, av[1][1], r.value), work + 1)

(* ensemble_dot of ensemble_algebra.py *)
EnsembleDot(a, b) ==
  IF EnsembleNe(a.ensemble, b.ensemble)
  THEN AlgResult(Raise("ValueError", "a and b are not defined on the same Ensemble"), 0)
  ELSE IF a.t \notin {"EnsembleScalar", "EnsembleArray"}
  THEN AlgResult(Raise("ValueError", "a is neither of type EnsembleScalar nor EnsembleArray"), 0)
  ELSE IF b.t \notin {"EnsembleScalar", "EnsembleArray"}
  THEN AlgResult(Raise("ValueError", "b is neither of type EnsembleScalar nor EnsembleArray"), 0)
  ELSE LET scalars == a.t = "EnsembleScalar" /\ b.t = "EnsembleScalar"
           loop == ZipLoop(scalars, ContainerValues(a), ContainerValues(b), <<>>, 0)
       IN IF ~IsOk(loop.out) THEN loop
          ELSE IF scalars
          THEN AlgResult(EnsembleScalarInit(a.ensemble, OrderedDict(loop.out.value),
                                            PyNone),
                         loop.work)
          ELSE AlgResult(ArrayInit("EnsembleArray", a.ensemble,
                                   OrderedDict(loop.out.value), PyNone),
                         loop.work)

(* for block, deg in ensembles[0]: data[block] = np.einsum(subscripts, *arrs) *)
RECURSIVE EinsumLoop(_, _, _, _, _)
EinsumLoop(subscripts, items, operands, data, work) ==
  IF Len(items) = 0 THEN AlgResult(Ok(data), work)
  ELSE LET block == items[1][1]
           r == NpEinsum(subscripts,
                         [i \in 1..Len(operands) |-> ODGet(operands[i].array, block)])
       IN IF ~IsOk(r) THEN AlgResult(r, work + 1)
          ELSE EinsumLoop(subscripts, Tail(items), operands,
                          ODSet(data, block, r.value), work + 1)

(* an einsum that compares the ensembles before it looks at the types *)
EinsumEnsemblesFirst(subscripts, operands) ==
  IF Len(operands) = 0
  THEN AlgResult(Raise("ValueError", "need at least one operand"), 0)
  ELSE IF Cardinality({operands[i].ensemble.id : i \in 1..Len(operands)}) > 1
  THEN AlgResult(Raise("ValueError", "operands do not share the same ensemble"), 0)
  ELSE IF \E i \in 1..Len(operands) : operands[i].t # "Array"
  THEN AlgResult(Raise("TypeError", "operands need to be ensemble.Array"), 0)
  ELSE LET loop == EinsumLoop(subscripts, EnsembleIter(heap[operands[1].ensemble.id]),
                              operands, <<>>, 0)
       IN IF ~IsOk(loop.out) THEN loop
          ELSE AlgResult(ArrayInit("Array", operands[1].ensemble,
                                   OrderedDict(loop.out.value), PyNone),
                         loop.work)

Einsum(subscripts, operands) ==
  IF Len(operands) = 0
  THEN AlgResult(Raise("ValueError", "need at least one operand"), 0)
  ELSE IF \E i \in 1..Len(operands) : operands[i].t # "Array"
  THEN AlgResult(Raise("TypeError", "operands need to be ensemble.Array"), 0)
  ELSE IF Cardinality({operands[i].ensemble.id : i \in 1..Len(operands)}) > 1
  THEN AlgResult(Raise("ValueError", "operands do not share the same ensemble"), 0)
  ELSE LET loop == EinsumLoop(subscripts, EnsembleIter(heap[operands[1].ensemble.id]),
                              operands, <<>>, 0)
       IN IF ~IsOk(loop.out) THEN loop
          ELSE AlgResult(ArrayInit("Array", operands[1].ensemble,
                                   OrderedDict(loop.out.value), PyNone),
                         loop.work)

(***************************************************************************)
(* Operands of the block algebra: containers over the Ensembles built      *)
(***************************************************************************)
AlgArgLists ==
  { <<PyList(<<PyStr(StrA), PyInt(1)>>)>>, <<PyList(<<PyStr(StrA)>>)>> }

ArrVals == {Vec(<<Q(2)>>), Vec(<<Q(1), Q(2)>>)}

ScalarVals == {PyNum(Q(2))}

(* the block-keyed mappings that give every block of Ensemble e a value of vals *)
BlockData(e, vals) ==
  LET blocks == heap[e].blocks
  IN {[i \in 1..Len(blocks) |-> <<blocks[i], f[i]>>] : f \in [1..Len(blocks) -> vals]}

Built(results) == {r.value : r \in {x \in results : IsOk(x)}}

ArraysOver(cls) ==
  Built(UNION {{ArrayInit(cls, EnsembleRef(e), OrderedDict(od), PyNone) :
                  od \in BlockData(e, ArrVals)} : e \in 1..Len(heap)})

ScalarsOver ==
  Built(UNION {{ScalarInit(EnsembleRef(e), OrderedDict(od), PyNone) :
                  od \in BlockData(e, ScalarVals)} : e \in 1..Len(heap)})

EnsembleScalarsOver ==
  Built(UNION {{EnsembleScalarInit(EnsembleRef(e), OrderedDict(od), PyNone) :
                  od \in BlockData(e, ScalarVals)} : e \in 1..Len(heap)})

AlgOperands == ArraysOver("Array") \cup ScalarsOver

LegacyOperands == ArraysOver("EnsembleArray") \cup EnsembleScalarsOver \cup ScalarsOver

(***************************************************************************)
(* Operations of the block algebra                                         *)
(***************************************************************************)
(* Containers are values and no operation changes the heap: an operation   *)
(* is observed from the state in which its Ensembles were constructed,     *)
(* which reaches the same states as calling it after other operations.     *)
Constructing == call.op \in {"none", "Ensemble"}

NewAlgEnsemble ==
  \E args \in AlgArgLists, dd \in DefaultDegs : New(args, dd)

Compare ==
  /\ Constructing
  /\ \E a, b \in 1..Len(heap) :
    /\ \/ /\ call' = [op |-> "==", a |-> a, b |-> b]
          /\ ret' = Ok(EnsembleEq(EnsembleRef(a), EnsembleRef(b)))
       \/ /\ call' = [op |-> "!=", a |-> a, b |-> b]
          /\ ret' = Ok(EnsembleNe(EnsembleRef(a), EnsembleRef(b)))
    /\ heap' = heap

CallDot ==
  /\ Constructing
  /\ \E a, b \in AlgOperands :
    /\ call' = [op |-> "dot", a |-> a, b |-> b]
    /\ ret' = Dot(a, b)
    /\ heap' = heap

CallOuter ==
  /\ Constructing
  /\ \E a, b \in AlgOperands :
    /\ call' = [op |-> "outer", a |-> a, b |-> b]
    /\ ret' = Outer(a, b)
    /\ heap' = heap

CallAddOuter ==
  /\ Constructing
  /\ \E a, b \in AlgOperands :
    /\ call' = [op |-> "add_outer", a |-> a, b |-> b]
    /\ ret' = AddOuter(a, b)
    /\ heap' = heap

CallSubtractOuter ==
  /\ Constructing
  /\ \E a, b \in AlgOperands :
    /\ call' = [op |-> "subtract_outer", a |-> a, b |-> b]
    /\ ret' = SubtractOuter(a, b)
    /\ heap' = heap

CallEnsembleDot ==
  /\ Constructing
  /\ \E a, b \in LegacyOperands :
    /\ call' = [op |-> "ensemble_dot", a |-> a, b |-> b]
    /\ ret' = EnsembleDot(a, b)
    /\ heap' = heap

CallEnsembleArrayDot ==
  /\ Constructing
  /\ \E a, b \in LegacyOperands :
    /\ call' = [op |-> "ensemble_array.ensemble_dot", a |-> a, b |-> b]
    /\ ret' = EnsembleArrayDot(a, b)
    /\ heap' = heap

CallEinsum ==
  /\ Constructing
  /\ \E subscripts \in {"i->i", "i,i->"}, operands \in SeqsUpTo(AlgOperands, MaxOperands) :
    /\ call' = [op |-> "einsum", subscripts |-> subscripts, operands |-> operands]
    /\ ret' = Einsum(subscripts, operands)
    /\ heap' = heap

NextAlgebra ==
  \/ NewAlgEnsemble
  \/ Compare
  \/ CallDot
  \/ CallOuter
  \/ CallAddOuter
  \/ CallSubtractOuter
  \/ CallEnsembleDot
  \/ CallEnsembleArrayDot
  \/ CallEinsum

SpecAlgebra == Init /\ [][NextAlgebra]_vars

(***************************************************************************)
(* Claims about equality of Ensembles and the partition checks             *)
(***************************************************************************)
(* the ordered block-to-degeneracy mappings of two Ensembles are identical *)
SameMapping(a, b) == heap[a].degeneracy = heap[b].degeneracy

PairOps ==
  {"dot", "outer", "add_outer", "subtract_outer", "ensemble_dot",
   "ensemble_array.ensemble_dot"}

(* the class of array container an operation is defined on *)
ArrayClassOf(op) ==
  IF op \in {"ensemble_dot", "ensemble_array.ensemble_dot"}
  THEN "EnsembleArray" ELSE "Array"

OnArrays == call.op \in PairOps /\ call.a.t = ArrayClassOf(call.op)
              /\ call.b.t = ArrayClassOf(call.op)

MismatchMsgs ==
  {"a and b do not share the same ensemble",
   "a and b are not defined on the same Ensemble",
   "operands do not share the same ensemble"}

IsMismatch(out) == out.status = "ValueError" /\ out.msg \in MismatchMsgs

\* C3: two Ensembles compare equal (==, and not !=) exactly when their ordered
\* block-to-degeneracy mappings are identical, and the partition check of
\* dot/outer/... rejects a pair of operands exactly when the mappings differ.
C3_EqualityIsStructural ==
  /\ call.op = "==" => ret.value = SameMapping(call.a, call.b)
  /\ call.op = "!=" => ret.value = ~SameMapping(call.a, call.b)
  /\ OnArrays =>
       (IsMismatch(ret.out) <=> ~SameMapping(call.a.ensemble.id, call.b.ensemble.id))

\* C4: dot, outer, add_outer, subtract_outer and ensemble_dot on two array
\* containers whose Ensembles are not equal raise the partition-mismatch
\* ValueError before any block's array is read.
C4_MismatchBeforeBlocks ==
  (OnArrays /\ EnsembleNe(call.a.ensemble, call.b.ensemble)) =>
    (IsMismatch(ret.out) /\ ret.work = 0)

C4_Witness ==
  /\ call.op = "dot"
  /\ OnArrays
  /\ ~SameMapping(call.a.ensemble.id, call.b.ensemble.id)
  /\ Len(call.a.array) > 0
  /\ IsMismatch(ret.out)
  /\ ret.work = 0

\* C5: einsum checks, in this order and before any block is contracted: the
\* operand count (ValueError), the operand types (TypeError), the agreement of
\* the operands' Ensembles (ValueError).
C5_EinsumChecksInOrder ==
  call.op = "einsum" =>
    LET ops == call.operands
        noArray == \E i \in 1..Len(ops) : ops[i].t # "Array"
        differ == \E i, j \in 1..Len(ops) : EnsembleNe(ops[i].ensemble, ops[j].ensemble)
    IN /\ Len(ops) = 0 =>
            (ret = AlgResult(Raise("ValueError", "need at least one operand"), 0))
       /\ (Len(ops) > 0 /\ noArray) =>
            (ret = AlgResult(Raise("TypeError", "operands need to be ensemble.Array"), 0))
       /\ (Len(ops) > 0 /\ ~noArray /\ differ) => (IsMismatch(ret.out) /\ ret.work = 0)
       /\ (Len(ops) > 0 /\ ~noArray /\ ~differ) => ~IsMismatch(ret.out)

C5_Witness ==
  /\ call.op = "einsum"
  /\ Len(call.operands) = 2
  /\ call.operands[1].t = "Array"
  /\ call.operands[2].t = "Scalar"
  /\ ~SameMapping(call.operands[1].ensemble.id, call.operands[2].ensemble.id)
  /\ ret.out.status = "TypeError"
  /\ ret.work = 0

(***************************************************************************)
(* Operators of Array and EnsembleArray                                    *)
(***************************************************************************)
(* a block key as the Python tuple of str it is *)
KeyObj(block) == PyTuple([i \in 1..Len(block) |-> PyStr(block[i])])

(* slice(start, stop) with non-negative bounds *)
PySlice(start, stop) == [t |-> "slice", start |-> start, stop |-> stop]

Min(a, b) == IF a < b THEN a ELSE b

(* arr[k] for an int k, a slice k and a tuple of str k: a negative int     *)
(* counts from the end, a slice is clipped to the first axis, the empty    *)
(* tuple selects the whole array, a str is not a valid index               *)
NpIndex(arr, k) ==
  IF k.t = "int"
  THEN IF Ndim(arr) = 0 \/ k.n < 0 - arr.shape[1] \/ k.n >= arr.shape[1]
       THEN Raise("IndexError", "index out of bounds")
       ELSE LET inner == SizeOf(Tail(arr.shape))
                i == IF k.n < 0 THEN k.n + arr.shape[1] ELSE k.n
            IN Ok(NdArray(Tail(arr.shape),
                          SubSeq(arr.data, i * inner + 1, (i + 1) * inner)))
  ELSE IF k.t = "slice"
  THEN IF Ndim(arr) = 0
       THEN Raise("IndexError", "too many indices for array")
       ELSE LET inner == SizeOf(Tail(arr.shape))
                lo == Min(k.start, arr.shape[1])
                hi == IF Min(k.stop, arr.shape[1]) < lo THEN lo
                      ELSE Min(k.stop, arr.shape[1])
            IN Ok(NdArray(<<hi - lo>> \o Tail(arr.shape),
                          SubSeq(arr.data, lo * inner + 1, hi * inner)))
  ELSE IF k.t = "tuple" /\ Len(k.items) = 0 THEN Ok(arr)
  ELSE Raise("IndexError", "only integers, slices, ellipsis, newaxis and integer or boolean arrays are valid indices")

(* for block, arr in self.items(): data[block] = arr[k], or an empty 1-d   *)
(* array (np.empty(self.ndim * (0)) is np.empty(0)) for a block of length 0 *)
RECURSIVE GetItemLoop(_, _, _)
GetItemLoop(items, k, data) ==
  IF Len(items) = 0 THEN Ok(data)
  ELSE LET arr == items[1][2]
       IN IF Ndim(arr) = 0 THEN Raise("TypeError", "len() of unsized object")
          ELSE IF arr.shape[1] > 0
          THEN Bind(NpIndex(arr, k),
                    LAMBDA v : GetItemLoop(Tail(items), k, ODSet(data, items[1][1], v)))
          ELSE GetItemLoop(Tail(items), k, ODSet(data, items[1][1], Vec(<<>>)))

(* Array.__getitem__ and EnsembleArray.__getitem__ *)
ArrayGetItem(self, k) ==
  Bind(GetItemLoop(self.array, k, <<>>),
       LAMBDA d : ArrayInit(self.t, self.ensemble, OrderedDict(d), PyNone))

(* other[block] for a container, a block-keyed mapping or a number *)
GetItem(other, block) ==
  IF other.t \in {"Array", "EnsembleArray"} THEN ArrayGetItem(other, KeyObj(block))
  ELSE IF other.t \in {"Scalar", "OrderedDict", "dict"}
  THEN LET od == IF other.t = "Scalar" THEN other.scalar ELSE other.od
       IN IF ODHas(od, block) THEN Ok(ODGet(od, block)) ELSE Raise("KeyError", "block")
  ELSE Raise("TypeError", "object is not subscriptable")

(* arr + v and arr - v: an array or a number is broadcast; any other       *)
(* object is added element by element, which no element of arr supports    *)
NpPlus(op, arr, v) ==
  IF v.t = "ndarray" \/ IsNumber(v) THEN Elementwise(op, arr, NpArray(v))
  ELSE IF SizeOf(arr.shape) = 0 THEN Ok(NdArray(arr.shape, <<>>))
  ELSE Raise("TypeError", "unsupported operand type(s)")

RECURSIVE PlusScalarLoop(_, _, _, _)
PlusScalarLoop(op, items, other, data) ==
  IF Len(items) = 0 THEN Ok(data)
  ELSE LET r == NpPlus(op, items[1][2], other)
       IN IF ~IsOk(r) THEN r
          ELSE PlusScalarLoop(op, Tail(items), other, ODSet(data, items[1][1], r.value))

(* for block, arr in self.items(): data[block] = arr + other[block] *)
RECURSIVE PlusBlockLoop(_, _, _, _)
PlusBlockLoop(op, items, other, data) ==
  IF Len(items) = 0 THEN Ok(data)
  ELSE LET ob == GetItem(other, items[1][1])
       IN IF ~IsOk(ob) THEN ob
          ELSE LET r == NpPlus(op, items[1][2], ob.value)
               IN IF ~IsOk(r) THEN r
                  ELSE PlusBlockLoop(op, Tail(items), other,
                                     ODSet(data, items[1][1], r.value))

(* Array.__add__ / __sub__ and EnsembleArray.__add__ / __sub__ *)
ArrayPlus(op, self, other) ==
  LET loop == IF NpIsScalar(other) THEN PlusScalarLoop(op, self.array, other, <<>>)
              ELSE PlusBlockLoop(op, self.array, other, <<>>)
  IN IF ~IsOk(loop) THEN loop
     ELSE ArrayInit(self.t, self.ensemble, OrderedDict(loop.value), PyNone)

ArrayAdd(self, other) == ArrayPlus("add", self, other)

ArraySub(self, other) == ArrayPlus("sub", self, other)

(***************************************************************************)
(* Operations on array containers                                          *)
(***************************************************************************)
AddVals == {Vec(<<>>), Vec(<<Q(2)>>), Vec(<<Q(1), Q(2)>>)}

AddContainers(cls) ==
  Built(UNION {{ArrayInit(cls, EnsembleRef(e), OrderedDict(od), PyNone) :
                  od \in BlockData(e, AddVals)} : e \in 1..Len(heap)})

PlainNumbers == {PyInt(3), PyNum(<<1, 2>>)}

CallArrayAdd ==
  /\ Constructing
  /\ \E cls \in {"Array", "EnsembleArray"} :
       \E a \in AddContainers(cls),
          other \in AddContainers(cls) \cup ScalarsOver \cup PlainNumbers :
         /\ call' = [op |-> "__add__", a |-> a, other |-> other]
         /\ ret' = ArrayAdd(a, other)
         /\ heap' = heap

CallArraySub ==
  /\ Constructing
  /\ \E cls \in {"Array", "EnsembleArray"} :
       \E a \in AddContainers(cls),
          other \in AddContainers(cls) \cup ScalarsOver \cup PlainNumbers :
         /\ call' = [op |-> "__sub__", a |-> a, other |-> other]
         /\ ret' = ArraySub(a, other)
         /\ heap' = heap

NextArray == NewAlgEnsemble \/ CallArrayAdd \/ CallArraySub

SpecArray == Init /\ [][NextArray]_vars

(***************************************************************************)
(* Claims about the operators of array containers                          *)
(***************************************************************************)
\* C6: for Array containers A and B over one Ensemble, A + B returns an Array
\* whose value at every block is A's block array plus B's block array; for a
\* plain number c, A + c returns A's block array plus c at every block.  (A
\* block whose two arrays cannot be broadcast together is left out.)
C6_AddIsBlockwise ==
  call.op = "__add__" =>
    LET A == call.a
        B == call.other
    IN /\ (B.t = A.t /\ B.ensemble = A.ensemble
             /\ \A i \in 1..Len(A.array) :
                  IsOk(Elementwise("add", A.array[i][2], ODGet(B.array, A.array[i][1]))))
          => /\ IsOk(ret)
             /\ ret.value.t = A.t
             /\ \A i \in 1..Len(A.array) :
                  ODGet(ret.value.array, A.array[i][1])
                    = Elementwise("add", A.array[i][2],
                                  ODGet(B.array, A.array[i][1])).value
       /\ IsNumber(B)
          => /\ IsOk(ret)
             /\ ret.value.t = A.t
             /\ \A i \in 1..Len(A.array) :
                  ODGet(ret.value.array, A.array[i][1])
                    = Elementwise("add", A.array[i][2], NpArray(B)).value

(***************************************************************************)
(* EnsembleTriDiag                                                         *)
(***************************************************************************)
(* ndarray.flatten() *)
NpFlatten(arr) == Vec(arr.data)

(* a slice that keeps the whole array *)
DropNothing(arr) == arr

(* od[:-1] of a 1-d array *)
DropLast(arr) ==
  IF Len(arr.data) = 0 THEN arr ELSE Vec(SubSeq(arr.data, 1, Len(arr.data) - 1))

TagDiag == [t |-> "str", s |-> "diag"]

TagOffdiag == [t |-> "str", s |-> "offdiag"]

RECURSIVE TriDiagLoop(_, _, _, _, _)
TriDiagLoop(items, ens_diag, ens_offdiag, diag, offdiag) ==
  IF Len(items) = 0 THEN Ok([diag |-> diag, offdiag |-> offdiag])
  ELSE LET block == items[1][1]
           d == NpFlatten(ODGet(ens_diag.array, block))
           od == NpFlatten(ODGet(ens_offdiag.array, block))
       IN IF Len(d.data) = Len(od.data)
          THEN TriDiagLoop(Tail(items), ens_diag, ens_offdiag,
                           ODSet(diag, block, d), ODSet(offdiag, block, DropLast(od)))
          ELSE IF Len(d.data) = Len(od.data) + 1
          THEN TriDiagLoop(Tail(items), ens_diag, ens_offdiag,
                           ODSet(diag, block, d), ODSet(offdiag, block, od))
          ELSE Raise("ValueError", "Incompatible diag/offdiag dimensions")

(* EnsembleTriDiag.__init__ (dtype=None) *)
TriDiagInit(ensemble, data, diag_tag, offdiag_tag) ==
  IF ensemble.t # "Ensemble"
  THEN Raise("TypeError", "ensemble is not of type pydiag.Ensemble")
  ELSE IF data.t # "OrderedDict"
  THEN Raise("TypeError", "data is not of type OrderedDict")
  ELSE IF diag_tag.t # "str" \/ offdiag_tag.t # "str"
  THEN Raise("TypeError", "diag_tag / offdiag_tag both need to be strings")
  ELSE LET ens_diag == ArrayInit("EnsembleArray", ensemble, data, diag_tag)
           ens_offdiag == ArrayInit("EnsembleArray", ensemble, data, offdiag_tag)
       IN IF ~IsOk(ens_diag) THEN ens_diag
          ELSE IF ~IsOk(ens_offdiag) THEN ens_offdiag
          ELSE LET loop == TriDiagLoop(EnsembleIter(heap[ensemble.id]),
                                       ens_diag.value, ens_offdiag.value, <<>>, <<>>)
               IN IF ~IsOk(loop) THEN loop
                  ELSE Ok([t |-> "EnsembleTriDiag", ensemble |-> ensemble,
                           diag |-> loop.value.diag, offdiag |-> loop.value.offdiag])

(* The eigen-routines of scipy.linalg are one trusted spectrum function:   *)
(* Eigenvalue(d, e, i) stands for the eigenvalue of index i, counted from  *)
(* 0 in ascending order, of the symmetric tridiagonal matrix (d, e), and   *)
(* Eigenvector(d, e, i, j) for component i of the eigenvector of index j.  *)
Eigenvalue(d, e, i) == [diag |-> d.data, offdiag |-> e.data, index |-> i]

Eigenvector(d, e, i, j) == [diag |-> d.data, offdiag |-> e.data, row |-> i, col |-> j]

(* eigvalsh_tridiagonal(d, e, 'i', select_range=(lo, hi)) *)
EigvalshTridiagonalRange(d, e, lo, hi) ==
  Vec([k \in 1..(hi - lo + 1) |-> Eigenvalue(d, e, lo + k - 1)])

(* eigvalsh_tridiagonal(d, e, select='a') *)
EigvalshTridiagonal(d, e) == EigvalshTridiagonalRange(d, e, 0, Len(d.data) - 1)

(* eigh_tridiagonal(d, e, select='a') *)
EighTridiagonal(d, e) ==
  LET n == Len(d.data)
  IN <<EigvalshTridiagonal(d, e),
       NdArray(<<n, n>>,
               [k \in 1..(n * n) |-> Eigenvector(d, e, (k - 1) \div n, (k - 1) % n)])>>

(* an eig0 that asks the library for the eigenvalue of the highest index *)
Eig0BlockLast(d, e) ==
  IF Len(d.data) = 0 THEN PyNone
  ELSE IF Len(d.data) = 1 THEN PyNum(d.data[1])
  ELSE PyNum(EigvalshTridiagonalRange(d, e, Len(d.data) - 1, Len(d.data) - 1).data[1])

(* the value eig0 stores for one block *)
Eig0Block(d, e) ==
  IF Len(d.data) = 0 THEN PyNone
  ELSE IF Len(d.data) = 1 THEN PyNum(d.data[1])
  ELSE PyNum(EigvalshTridiagonalRange(d, e, 0, 0).data[1])

(* for block, deg in self.ensemble: the block with its diag and offdiag *)
TriBlocks(self) ==
  LET items == EnsembleIter(heap[self.ensemble.id])
  IN [i \in 1..Len(items) |->
        [block |-> items[i][1], d |-> ODGet(self.diag, items[i][1]),
         od |-> ODGet(self.offdiag, items[i][1])]]

(* EnsembleTriDiag.eig0 *)
Eig0(self) ==
  LET blocks == TriBlocks(self)
  IN EnsembleScalarInit(self.ensemble,
       OrderedDict([i \in 1..Len(blocks) |->
                      <<blocks[i].block, Eig0Block(blocks[i].d, blocks[i].od)>>]),
       PyNone)

EigBlock(d, e) ==
  IF Len(d.data) = 0 THEN <<Vec(<<>>), NdArray(<<0, 0>>, <<>>)>>
  ELSE IF Len(d.data) = 1 THEN <<d, NdArray(<<1, 1>>, <<Q(1)>>)>>
  ELSE EighTridiagonal(d, e)

(* EnsembleTriDiag.eig: the pair (eigenvalues, eigenvectors) *)
Eig(self) ==
  LET blocks == TriBlocks(self)
      evals == ArrayInit("EnsembleArray", self.ensemble,
                 OrderedDict([i \in 1..Len(blocks) |->
                   <<blocks[i].block, EigBlock(blocks[i].d, blocks[i].od)[1]>>]), PyNone)
      evecs == ArrayInit("EnsembleArray", self.ensemble,
                 OrderedDict([i \in 1..Len(blocks) |->
                   <<blocks[i].block, EigBlock(blocks[i].d, blocks[i].od)[2]>>]), PyNone)
  IN IF ~IsOk(evals) THEN evals
     ELSE IF ~IsOk(evecs) THEN evecs
     ELSE Ok(<<evals.value, evecs.value>>)

EigvalsBlock(d, e) ==
  IF Len(d.data) = 0 THEN Vec(<<>>)
  ELSE IF Len(d.data) = 1 THEN d
  ELSE EigvalshTridiagonal(d, e)

(* EnsembleTriDiag.eigvals *)
Eigvals(self) ==
  LET blocks == TriBlocks(self)
  IN ArrayInit("EnsembleArray", self.ensemble,
       OrderedDict([i \in 1..Len(blocks) |->
                      <<blocks[i].block, EigvalsBlock(blocks[i].d, blocks[i].od)>>]),
       PyNone)

(* numpy.diag(v, k) of a 1-d array: v on the k-th diagonal of a square     *)
(* matrix of order len(v) + |k|                                            *)
NpDiag(v, k) ==
  LET n == Len(v.data) + Abs(k)
  IN NdArray(<<n, n>>,
       [p \in 1..(n * n) |->
          LET i == (p - 1) \div n
              j == (p - 1) % n
          IN IF j - i = k THEN v.data[(IF k >= 0 THEN i ELSE j) + 1] ELSE Q(0)])

(* a dense form that leaves the lower diagonal out *)
AsArrayBlockUpper(d, od) == Elementwise("add", NpDiag(d, 0), NpDiag(od, 1))

(* np.diag(d) + np.diag(od, k=1) + np.diag(od, k=-1) *)
AsArrayBlock(d, od) ==
  LET upper == Elementwise("add", NpDiag(d, 0), NpDiag(od, 1))
  IN IF ~IsOk(upper) THEN upper
     ELSE Elementwise("add", upper.value, NpDiag(od, -1))

RECURSIVE AsArrayLoop(_, _)
AsArrayLoop(blocks, data_mats) ==
  IF Len(blocks) = 0 THEN Ok(data_mats)
  ELSE LET r == AsArrayBlock(blocks[1].d, blocks[1].od)
       IN IF ~IsOk(r) THEN r
          ELSE AsArrayLoop(Tail(blocks), ODSet(data_mats, blocks[1].block, r.value))

(* EnsembleTriDiag.asarray *)
AsArray(self) ==
  LET loop == AsArrayLoop(TriBlocks(self), <<>>)
  IN IF ~IsOk(loop) THEN loop
     ELSE ArrayInit("EnsembleArray", self.ensemble, OrderedDict(loop.value), PyNone)

(***************************************************************************)
(* Operations on EnsembleTriDiag                                           *)
(***************************************************************************)
DiagInputs ==
  {Vec([i \in 1..n |-> Q(i)]) : n \in 0..MaxDim}
    \cup {NdArray(<<1, 2>>, <<Q(1), Q(2)>>)}

OffdiagInputs ==
  {Vec([i \in 1..n |-> Q(10 + i)]) : n \in 0..MaxDim}
    \cup {NdArray(<<1, 1>>, <<Q(11)>>)}

TriVals ==
  {[t |-> "dict", od |-> << <<"diag", d>>, <<"offdiag", od>> >>] :
     d \in DiagInputs, od \in OffdiagInputs}

TriDiagsOver ==
  Built(UNION {{TriDiagInit(EnsembleRef(e), OrderedDict(od), TagDiag, TagOffdiag) :
                  od \in BlockData(e, TriVals)} : e \in 1..Len(heap)})

NewOneEnsemble ==
  /\ heap = <<>>
  /\ \E args \in AlgArgLists, dd \in DefaultDegs : New(args, dd)

CallTriDiagInit ==
  /\ Constructing
  /\ \E e \in 1..Len(heap) : \E od \in BlockData(e, TriVals) :
       /\ call' = [op |-> "EnsembleTriDiag", ensemble |-> EnsembleRef(e),
                   data |-> OrderedDict(od)]
       /\ ret' = TriDiagInit(EnsembleRef(e), OrderedDict(od), TagDiag, TagOffdiag)
       /\ heap' = heap

CallEig0 ==
  /\ Constructing
  /\ \E self \in TriDiagsOver :
       /\ call' = [op |-> "eig0", self |-> self]
       /\ ret' = Eig0(self)
       /\ heap' = heap

CallEig ==
  /\ Constructing
  /\ \E self \in TriDiagsOver :
       /\ call' = [op |-> "eig", self |-> self]
       /\ ret' = Eig(self)
       /\ heap' = heap

CallEigvals ==
  /\ Constructing
  /\ \E self \in TriDiagsOver :
       /\ call' = [op |-> "eigvals", self |-> self]
       /\ ret' = Eigvals(self)
       /\ heap' = heap

CallAsArray ==
  /\ Constructing
  /\ \E self \in TriDiagsOver :
       /\ call' = [op |-> "asarray", self |-> self]
       /\ ret' = AsArray(self)
       /\ heap' = heap

NextTriDiag ==
  \/ NewOneEnsemble
  \/ CallTriDiagInit
  \/ CallEig0
  \/ CallEig
  \/ CallEigvals
  \/ CallAsArray

SpecTriDiag == Init /\ [][NextTriDiag]_vars

(***************************************************************************)
(* Claims about EnsembleTriDiag                                            *)
(***************************************************************************)
(* the blocks of the constructor call, with the arrays given for them *)
GivenBlocks ==
  LET items == EnsembleIter(heap[call.ensemble.id])
  IN [i \in 1..Len(items) |->
        [block |-> items[i][1],
         d |-> ODGet(ODGet(call.data.od, items[i][1]).od, "diag"),
         od |-> ODGet(ODGet(call.data.od, items[i][1]).od, "offdiag")]]

(* both intermediate EnsembleArrays can be built: one ndim for every diag, *)
(* one for every offdiag                                                   *)
ArraysBuilt ==
  /\ Cardinality({Ndim(GivenBlocks[i].d) : i \in 1..Len(GivenBlocks)}) = 1
  /\ Cardinality({Ndim(GivenBlocks[i].od) : i \in 1..Len(GivenBlocks)}) = 1

FlatLen(arr) == SizeOf(arr.shape)

Accepted(b) == FlatLen(b.od) = FlatLen(b.d) \/ FlatLen(b.od) = FlatLen(b.d) - 1

(* the construction succeeds exactly when every block is accepted, fails   *)
(* with a ValueError otherwise, and stores the flattened diagonal and the   *)
(* off-diagonal without the trailing entry of an equally long input         *)
AcceptsAndTrims ==
  /\ IsOk(ret) <=> \A i \in 1..Len(GivenBlocks) : Accepted(GivenBlocks[i])
  /\ ~IsOk(ret) => ret.status = "ValueError"
  /\ IsOk(ret) =>
       \A i \in 1..Len(GivenBlocks) :
         LET b == GivenBlocks[i]
             off == ODGet(ret.value.offdiag, b.block).data
         IN /\ ODGet(ret.value.diag, b.block).data = b.d.data
            /\ \A k \in 1..Len(off) : off[k] = b.od.data[k]
            /\ FlatLen(b.od) = FlatLen(b.d) - 1 => Len(off) = FlatLen(b.od)

\* C7 as stated: construction succeeds for a block exactly when len(od) is
\* len(d) or len(d) - 1, and afterwards every block, zero-length blocks
\* included, has len(offdiag) = len(diag) - 1.
C7_OffdiagOneShorter ==
  (call.op = "EnsembleTriDiag" /\ ArraysBuilt) =>
    /\ AcceptsAndTrims
    /\ IsOk(ret) =>
         \A i \in 1..Len(ret.value.diag) :
           Len(ret.value.offdiag[i][2].data) = Len(ret.value.diag[i][2].data) - 1

\* C7 amended: construction succeeds for a block exactly when len(od) is
\* len(d) or len(d) - 1, and afterwards every block of length >= 1 has
\* len(offdiag) = len(diag) - 1 while a zero-length block has an empty
\* offdiag.
C7_OffdiagNormalised ==
  (call.op = "EnsembleTriDiag" /\ ArraysBuilt) =>
    /\ AcceptsAndTrims
    /\ IsOk(ret) =>
         \A i \in 1..Len(ret.value.diag) :
           LET n == Len(ret.value.diag[i][2].data)
           IN Len(ret.value.offdiag[i][2].data) = IF n = 0 THEN 0 ELSE n - 1

C7_Witness ==
  /\ call.op = "EnsembleTriDiag"
  /\ ArraysBuilt
  /\ IsOk(ret)
  /\ \E i \in 1..Len(GivenBlocks) :
       FlatLen(GivenBlocks[i].d) >= 2 /\ FlatLen(GivenBlocks[i].od) = FlatLen(GivenBlocks[i].d)
  /\ \E i \in 1..Len(GivenBlocks) : FlatLen(GivenBlocks[i].d) = 0

\* C8: asarray returns, for every block, the n x n matrix with diag on the
\* main diagonal, offdiag on both adjacent diagonals and 0 elsewhere, n being
\* len(diag); a zero-length block gives a 0 x 0 matrix and a block of length 1
\* the matrix [[diag[0]]], and nothing is raised.
C8_DenseIsTridiagonal ==
  call.op = "asarray" =>
    /\ IsOk(ret)
    /\ \A b \in Range(TriBlocks(call.self)) :
         LET n == Len(b.d.data)
             M == ODGet(ret.value.array, b.block)
         IN /\ M.shape = <<n, n>>
            /\ Len(M.data) = n * n
            /\ \A i, j \in 0..(n - 1) :
                 M.data[i * n + j + 1] =
                   IF i = j THEN b.d.data[i + 1]
                   ELSE IF j = i + 1 THEN b.od.data[i + 1]
                   ELSE IF i = j + 1 THEN b.od.data[j + 1]
                   ELSE Q(0)

C8_Witness ==
  /\ call.op = "asarray"
  /\ IsOk(ret)
  /\ \E b \in Range(TriBlocks(call.self)) : Len(b.d.data) = 0
  /\ \E b \in Range(TriBlocks(call.self)) : Len(b.d.data) >= 3

(* the minimum of the eigenvalues of one block: the only one, or the one   *)
(* of the lowest index in the ascending order of the library               *)
MinEigenvalue(evals) ==
  IF Len(evals) = 1 THEN evals[1]
  ELSE CHOOSE x \in Range(evals) : \A y \in Range(evals) : x.index <= y.index

\* C9: per block, eig0 gives None for length 0 and the diagonal entry for
\* length 1, and for every length >= 1 the minimum of eig's eigenvalues; eig
\* gives (empty 1-d, empty 0 x 0) for length 0 and ([d0], [[1]]) for length 1;
\* eigvals gives the eigenvalues of eig.
C9_EigenSpecialCases ==
  /\ call.op = "eig0" =>
       /\ IsOk(ret)
       /\ \A b \in Range(TriBlocks(call.self)) :
            LET n == Len(b.d.data)
                e0 == ODGet(ret.value.scalar, b.block)
            IN /\ n = 0 => e0 = PyNone
               /\ n = 1 => e0 = PyNum(b.d.data[1])
               /\ n >= 1 =>
                    e0 = PyNum(MinEigenvalue(
                                 ODGet(Eig(call.self).value[1].array, b.block).data))
  /\ call.op = "eig" =>
       /\ IsOk(ret)
       /\ \A b \in Range(TriBlocks(call.self)) :
            LET n == Len(b.d.data)
                evals == ODGet(ret.value[1].array, b.block)
                evecs == ODGet(ret.value[2].array, b.block)
            IN /\ evals.shape = <<n>> /\ Len(evals.data) = n
               /\ evecs.shape = <<n, n>> /\ Len(evecs.data) = n * n
               /\ n = 1 => evals.data = <<b.d.data[1]>> /\ evecs.data = <<Q(1)>>
  /\ call.op = "eigvals" =>
       /\ IsOk(ret)
       /\ \A b \in Range(TriBlocks(call.self)) :
            ODGet(ret.value.array, b.block)
              = ODGet(Eig(call.self).value[1].array, b.block)

C9_Witness ==
  /\ call.op = "eig0"
  /\ IsOk(ret)
  /\ \E b \in Range(TriBlocks(call.self)) :
       Len(b.d.data) = 0 /\ ODGet(ret.value.scalar, b.block) = PyNone
  /\ \E b \in Range(TriBlocks(call.self)) :
       Len(b.d.data) >= 2 /\ ODGet(ret.value.scalar, b.block).q.index = 0

(***************************************************************************)
(* Operators of Scalar                                                     *)
(***************************************************************************)
(* x (op) y for a stored value x: numbers combine, a number and an array   *)
(* broadcast, None or a container on either side is not supported          *)
PyArith(op, x, y) ==
  IF IsNumber(x) /\ IsNumber(y)
  THEN IF op = "div" /\ NumQ(y)[1] = 0
       THEN Raise("ZeroDivisionError", "division by zero")
       ELSE Ok(PyNum(Arith(op, NumQ(x), NumQ(y))))
  ELSE IF IsNumber(x) /\ y.t = "ndarray" THEN Elementwise(op, NpArray(x), y)
  ELSE Raise("TypeError", "unsupported operand type(s)")

(* for block, arr in self.items(): data[block] = arr (op) other *)
RECURSIVE ScalarNumberLoop(_, _, _, _)
ScalarNumberLoop(op, items, other, data) ==
  IF Len(items) = 0 THEN Ok(data)
  ELSE Bind(PyArith(op, items[1][2], other),
            LAMBDA v : ScalarNumberLoop(op, Tail(items), other,
                                        ODSet(data, items[1][1], v)))

(* for block, arr in self.items(): data[block] = arr (op) other[block] *)
RECURSIVE ScalarBlockLoop(_, _, _, _)
ScalarBlockLoop(op, items, other, data) ==
  IF Len(items) = 0 THEN Ok(data)
  ELSE Bind(GetItem(other, items[1][1]),
            LAMBDA ob :
              Bind(PyArith(op, items[1][2], ob),
                   LAMBDA v : ScalarBlockLoop(op, Tail(items), other,
                                              ODSet(data, items[1][1], v))))

(* Scalar(self.ensemble, data): an array value must hold one element *)
ScalarOf(ensemble, data) ==
  IF \E i \in 1..Len(data) : data[i][2].t = "ndarray" /\ SizeOf(data[i][2].shape) # 1
  THEN Raise("ValueError", "can only convert an array of size 1 to a Python scalar")
  ELSE ScalarInit(ensemble, OrderedDict(data), PyNone)

(* Scalar.__add__ and Scalar.__sub__ *)
ScalarPlus(op, self, other) ==
  Bind(IF NpIsScalar(other) THEN ScalarNumberLoop(op, self.scalar, other, <<>>)
       ELSE ScalarBlockLoop(op, self.scalar, other, <<>>),
       LAMBDA d : ScalarOf(self.ensemble, d))

(* for block, arr in self.items(): data[block] = arr (op) other, for a     *)
(* number other, which is broadcast                                        *)
RECURSIVE TimesNumberLoop(_, _, _, _)
TimesNumberLoop(op, items, other, data) ==
  IF Len(items) = 0 THEN Ok(data)
  ELSE Bind(Elementwise(op, items[1][2], NpArray(other)),
            LAMBDA v : TimesNumberLoop(op, Tail(items), other,
                                       ODSet(data, items[1][1], v)))

(* x * v for a number x and an array container v: v.__rmul__(x), which is  *)
(* v.__mul__(x)                                                            *)
ReflectedMul(v, x) ==
  Bind(TimesNumberLoop("mul", v.array, x, <<>>),
       LAMBDA d : ArrayInit(v.t, v.ensemble, OrderedDict(d), PyNone))

(* x * v for every element x of a block array, in order; an element of    *)
(* the object array that results is the tuple of the one object it holds   *)
RECURSIVE ReflectedLoop(_, _, _)
ReflectedLoop(v, xs, acc) ==
  IF Len(xs) = 0 THEN Ok(acc)
  ELSE Bind(ReflectedMul(v, PyNum(xs[1])),
            LAMBDA p : ReflectedLoop(v, Tail(xs), Append(acc, <<p>>)))

(* arr * v and arr / v for a block array arr: an array or a number is      *)
(* broadcast; any other object is combined with each element of arr, which *)
(* an array container supports for * through its __rmul__ and nothing      *)
(* supports for /                                                          *)
NpTimes(op, arr, v) ==
  IF v.t = "ndarray" \/ IsNumber(v) THEN Elementwise(op, arr, NpArray(v))
  ELSE IF SizeOf(arr.shape) = 0 THEN Ok(NdArray(arr.shape, <<>>))
  ELSE IF op = "mul" /\ v.t \in {"Array", "EnsembleArray"}
  THEN Bind(ReflectedLoop(v, arr.data, <<>>), LAMBDA ps : Ok(NdArray(arr.shape, ps)))
  ELSE Raise("TypeError", "unsupported operand type(s)")

(* for block, arr in self.items(): data[block] = arr (op) other[block],    *)
(* for an `other` whose items are numbers or None                          *)
RECURSIVE TimesBlockLoop(_, _, _, _)
TimesBlockLoop(op, items, other, data) ==
  IF Len(items) = 0 THEN Ok(data)
  ELSE Bind(GetItem(other, items[1][1]),
            LAMBDA ob :
              Bind(NpTimes(op, items[1][2], ob),
                   LAMBDA v : TimesBlockLoop(op, Tail(items), other,
                                             ODSet(data, items[1][1], v))))

(* Array.__mul__ and Array.__truediv__ *)
ArrayTimes(op, self, other) ==
  Bind(IF NpIsScalar(other) THEN TimesNumberLoop(op, self.array, other, <<>>)
       ELSE TimesBlockLoop(op, self.array, other, <<>>),
       LAMBDA d : ArrayInit("Array", self.ensemble, OrderedDict(d), PyNone))

(* Scalar.__mul__ and Scalar.__truediv__: a number is applied to every     *)
(* block, anything else is handed to other.__mul__(self) or                *)
(* other.__truediv__(self); depth counts the nested calls                  *)
RECURSIVE ScalarTimesOp(_, _, _, _)
ScalarTimesOp(op, self, other, depth) ==
  IF depth > RecursionLimit
  THEN Raise("RecursionError", "maximum recursion depth exceeded")
  ELSE IF NpIsScalar(other)
  THEN Bind(ScalarNumberLoop(op, self.scalar, other, <<>>),
            LAMBDA d : ScalarOf(self.ensemble, d))
  ELSE IF other.t = "Scalar" THEN ScalarTimesOp(op, other, self, depth + 1)
  ELSE IF other.t = "Array" THEN ArrayTimes(op, other, self)
  ELSE Raise("AttributeError", "object has no attribute __mul__ / __truediv__")

ScalarAdd(self, other) == ScalarPlus("add", self, other)

ScalarSub(self, other) == ScalarPlus("sub", self, other)

ScalarMul(self, other) == ScalarTimesOp("mul", self, other, 1)

ScalarDiv(self, other) == ScalarTimesOp("div", self, other, 1)

(***************************************************************************)
(* Operations on Scalar containers                                         *)
(***************************************************************************)
StoredVals == {PyNum(Q(2)), PyNum(<<1, 2>>), PyNone}

ScalarPool ==
  Built(UNION {{ScalarInit(EnsembleRef(e), OrderedDict(od), PyNone) :
                  od \in BlockData(e, StoredVals)} : e \in 1..Len(heap)})

ScalarOthers == ScalarPool \cup ArraysOver("Array") \cup PlainNumbers

CallScalarAdd ==
  /\ Constructing
  /\ \E a \in ScalarPool, other \in ScalarOthers :
       /\ call' = [op |-> "add", a |-> a, other |-> other]
       /\ ret' = ScalarAdd(a, other)
       /\ heap' = heap

CallScalarSub ==
  /\ Constructing
  /\ \E a \in ScalarPool, other \in ScalarOthers :
       /\ call' = [op |-> "sub", a |-> a, other |-> other]
       /\ ret' = ScalarSub(a, other)
       /\ heap' = heap

CallScalarMul ==
  /\ Constructing
  /\ \E a \in ScalarPool, other \in ScalarOthers :
       /\ call' = [op |-> "mul", a |-> a, other |-> other]
       /\ ret' = ScalarMul(a, other)
       /\ heap' = heap

CallScalarDiv ==
  /\ Constructing
  /\ \E a \in ScalarPool, other \in ScalarOthers :
       /\ call' = [op |-> "div", a |-> a, other |-> other]
       /\ ret' = ScalarDiv(a, other)
       /\ heap' = heap

(* the names bound in the module scalar.py: its imports and its class *)
ScalarGlobals == {"Ensemble", "np", "OrderedDict", "Scalar"}

(* -arr *)
PyNeg(x) ==
  IF IsNumber(x) THEN Ok(PyNum(QSub(Q(0), NumQ(x))))
  ELSE Raise("TypeError", "bad operand type for unary -")

(* for block, arr in self.items(): data[block] = -arr *)
RECURSIVE ScalarNegLoop(_, _)
ScalarNegLoop(items, data) ==
  IF Len(items) = 0 THEN Ok(data)
  ELSE Bind(PyNeg(items[1][2]),
            LAMBDA v : ScalarNegLoop(Tail(items), ODSet(data, items[1][1], v)))

(* Scalar.__neg__: the loop, then the lookup of the name Array *)
ScalarNeg(self) ==
  Bind(ScalarNegLoop(self.scalar, <<>>),
       LAMBDA data :
         IF "Array" \in ScalarGlobals
         THEN ArrayInit("Array", self.ensemble, OrderedDict(data), PyNone)
         ELSE Raise("NameError", "name 'Array' is not defined"))

CallScalarNeg ==
  /\ Constructing
  /\ \E a \in ScalarPool :
       /\ call' = [op |-> "neg", a |-> a, other |-> PyNone]
       /\ ret' = ScalarNeg(a)
       /\ heap' = heap

NextScalar ==
  \/ NewOneEnsemble
  \/ CallScalarAdd
  \/ CallScalarSub
  \/ CallScalarMul
  \/ CallScalarDiv
  \/ CallScalarNeg

SpecScalar == Init /\ [][NextScalar]_vars

(***************************************************************************)
(* Claims about the operators of Scalar                                    *)
(***************************************************************************)
NoNone(c) == \A i \in 1..Len(c.scalar) : c.scalar[i][2].t # "None"

\* C10: for two Scalar containers a and b over the same Ensemble without None
\* entries, a + b, a - b, a * b and a / b each return a new Scalar whose value
\* at every block is the operation applied to the values of a and b at that
\* block; the dispatch of multiply and divide does not recurse without end.
C10_ScalarArithmeticPaired ==
  (/\ call.op \in {"add", "sub", "mul", "div"}
   /\ call.other.t = "Scalar"
   /\ call.other.ensemble = call.a.ensemble
   /\ NoNone(call.a)
   /\ NoNone(call.other)) =>
    /\ IsOk(ret)
    /\ ret.value.t = "Scalar"
    /\ ret.value.ensemble = call.a.ensemble
    /\ \A i \in 1..Len(call.a.scalar) :
         ODGet(ret.value.scalar, call.a.scalar[i][1])
           = PyNum(Arith(call.op, NumQ(call.a.scalar[i][2]),
                         NumQ(ODGet(call.other.scalar, call.a.scalar[i][1]))))

(***************************************************************************)
(* Indexing of array containers                                            *)
(***************************************************************************)
Mat(rows, cols, data) == NdArray(<<rows, cols>>, data)

IndexVals ==
  {Vec(<<>>), Vec(<<Q(1), Q(2)>>), Mat(0, 2, <<>>), Mat(2, 1, <<Q(1), Q(2)>>)}

IndexContainers(cls) ==
  Built(UNION {{ArrayInit(cls, EnsembleRef(e), OrderedDict(od), PyNone) :
                  od \in BlockData(e, IndexVals)} : e \in 1..Len(heap)})

IndexKeys == {PyInt(0), PyInt(1), PyInt(0 - 1), PySlice(0, 1), PySlice(1, 2)}

CallGetItem ==
  /\ Constructing
  /\ \E cls \in {"Array", "EnsembleArray"} :
       \E a \in IndexContainers(cls), k \in IndexKeys :
         /\ call' = [op |-> "__getitem__", a |-> a, k |-> k]
         /\ ret' = ArrayGetItem(a, k)
         /\ heap' = heap

NextIndex == NewAlgEnsemble \/ CallGetItem

SpecIndex == Init /\ [][NextIndex]_vars

\* C11: indexing an array container with an int or a slice k that every
\* non-empty block accepts does not raise; the result holds arr[k] for every
\* non-empty block and, for every empty block, an empty array with the same
\* number of dimensions as the other blocks of the result.
C11_IndexKeepsDimensions ==
  (/\ call.op = "__getitem__"
   /\ \A i \in 1..Len(call.a.array) :
        LET arr == call.a.array[i][2]
        IN arr.shape[1] > 0 => IsOk(NpIndex(arr, call.k))) =>
    /\ IsOk(ret)
    /\ ret.value.t = call.a.t
    /\ \A i \in 1..Len(call.a.array) :
         LET arr == call.a.array[i][2]
             res == ODGet(ret.value.array, call.a.array[i][1])
         IN /\ arr.shape[1] > 0 => res = NpIndex(arr, call.k).value
            /\ arr.shape[1] = 0 => SizeOf(res.shape) = 0
            /\ Ndim(res) = ret.value.ndim

(***************************************************************************)
(* Construction of array containers                                        *)
(***************************************************************************)
(* axis lists of Ensembles with two blocks, one block and no block *)
CtorArgLists == AlgArgLists \cup {<<PyList(<<>>)>>}

CtorVals ==
  {PyNum(Q(2)), Vec(<<>>), Vec(<<Q(1), Q(2)>>), Mat(0, 2, <<>>), Mat(2, 1, <<Q(1), Q(2)>>)}

NewCtorEnsemble ==
  /\ heap = <<>>
  /\ \E args \in CtorArgLists, dd \in DefaultDegs : New(args, dd)

CallArrayInit ==
  /\ Constructing
  /\ \E cls \in {"Array", "EnsembleArray"}, e \in 1..Len(heap) :
       \E od \in BlockData(e, CtorVals) :
         /\ call' = [op |-> "__init__", cls |-> cls, ensemble |-> EnsembleRef(e),
                     data |-> OrderedDict(od)]
         /\ ret' = ArrayInit(cls, EnsembleRef(e), OrderedDict(od), PyNone)
         /\ heap' = heap

NextCtor == NewCtorEnsemble \/ CallArrayInit

SpecCtor == Init /\ [][NextCtor]_vars

(* two blocks of the mapping hold arrays of different numbers of dimensions *)
NdimsDiffer(od) ==
  \E i, j \in 1..Len(od) : Ndim(NpArray(od[i][2])) # Ndim(NpArray(od[j][2]))

\* C12: constructing an Array or EnsembleArray from a mapping that gives every
\* block an array raises ValueError exactly when two blocks' arrays differ in
\* number of dimensions; otherwise it returns a container that stores every
\* block's array and whose ndim is the number of dimensions of each of them.
C12_NdimCheckedExactly ==
  call.op = "__init__" =>
    LET od == call.data.od
    IN /\ NdimsDiffer(od) <=> ret.status = "ValueError"
       /\ ~NdimsDiffer(od) =>
            /\ IsOk(ret)
            /\ ret.value.t = call.cls
            /\ \A i \in 1..Len(od) :
                 /\ ODGet(ret.value.array, od[i][1]) = NpArray(od[i][2])
                 /\ ret.value.ndim = Ndim(NpArray(od[i][2]))

(***************************************************************************)
(* Multiplication and division of array containers                         *)
(***************************************************************************)
(* EnsembleArray.__mul__ and EnsembleArray.__truediv__ *)
EnsembleArrayTimes(op, self, other) ==
  IF NpIsScalar(other)
  THEN Bind(TimesNumberLoop(op, self.array, other, <<>>),
            LAMBDA d : ArrayInit("EnsembleArray", self.ensemble, OrderedDict(d), PyNone))
  ELSE IF op = "mul"
  THEN Raise("TypeError", "only multiplications with scalars are allowed")
  ELSE Raise("TypeError", "only divisions with scalars are allowed")

(* self * other and self / other by the class of self *)
ContainerTimes(op, self, other) ==
  IF self.t = "Array" THEN ArrayTimes(op, self, other)
  ELSE EnsembleArrayTimes(op, self, other)

CallArrayMul ==
  /\ Constructing
  /\ \E cls \in {"Array", "EnsembleArray"} :
       \E a \in AddContainers(cls),
          other \in AddContainers(cls) \cup ScalarsOver \cup PlainNumbers :
         /\ call' = [op |-> "mul", a |-> a, other |-> other]
         /\ ret' = ContainerTimes("mul", a, other)
         /\ heap' = heap

CallArrayDiv ==
  /\ Constructing
  /\ \E cls \in {"Array", "EnsembleArray"} :
       \E a \in AddContainers(cls),
          other \in AddContainers(cls) \cup ScalarsOver \cup PlainNumbers :
         /\ call' = [op |-> "div", a |-> a, other |-> other]
         /\ ret' = ContainerTimes("div", a, other)
         /\ heap' = heap

NextTimes == NewOneEnsemble \/ CallArrayMul \/ CallArrayDiv

SpecTimes == Init /\ [][NextTimes]_vars

(* the block of a container operand, as an array *)
BlockArray(c, block) ==
  IF c.t = "Scalar" THEN NpArray(ODGet(c.scalar, block)) ELSE ODGet(c.array, block)

\* C13: A * c and A / c for a plain number c return a container of A's class
\* holding each block array times, respectively divided by, c; for an Array A
\* and an Array or Scalar B over the same Ensemble (blocks that broadcast),
\* A * B and A / B return the Array of the blockwise products and quotients;
\* for an EnsembleArray A and a container B, A * B and A / B raise TypeError.
C13_TimesByContainer ==
  call.op \in {"mul", "div"} =>
    LET A == call.a
        B == call.other
    IN /\ IsNumber(B) =>
            /\ IsOk(ret)
            /\ ret.value.t = A.t
            /\ \A i \in 1..Len(A.array) :
                 Ok(ODGet(ret.value.array, A.array[i][1]))
                   = Elementwise(call.op, A.array[i][2], NpArray(B))
       /\ (/\ A.t = "Array"
           /\ ~IsNumber(B)
           /\ B.ensemble = A.ensemble
           /\ \A i \in 1..Len(A.array) :
                IsOk(Elementwise(call.op, A.array[i][2], BlockArray(B, A.array[i][1])))) =>
            /\ IsOk(ret)
            /\ ret.value.t = "Array"
            /\ \A i \in 1..Len(A.array) :
                 Ok(ODGet(ret.value.array, A.array[i][1]))
                   = Elementwise(call.op, A.array[i][2], BlockArray(B, A.array[i][1]))
       /\ (A.t = "EnsembleArray" /\ ~IsNumber(B)) => ret.status = "TypeError"

(***************************************************************************)
(* Storage of block arrays                                                 *)
(*                                                                         *)
(* Every block array of an operand occupies one buffer of a memory, a      *)
(* sequence of array values; the buffers of the operands come first, in    *)
(* the order of the operands and of their blocks.  An operation hands the  *)
(* constructor of its result, for every block, either a new array or a     *)
(* view of (or the very) array of an operand, and the constructor stores   *)
(* np.array(...) of it.                                                    *)
(***************************************************************************)
(* numpy.transpose of an array of at most two dimensions *)
NpTranspose(arr) ==
  IF Ndim(arr) < 2 THEN arr
  ELSE LET r == arr.shape[1]
           c == arr.shape[2]
       IN NdArray(<<c, r>>,
                  [p \in 1..(r * c) |-> arr.data[((p - 1) % r) * c + ((p - 1) \div r) + 1]])

(* transpose of algebra.py *)
Transpose(A) ==
  IF A.t = "Array"
  THEN ArrayInit("Array", A.ensemble,
         OrderedDict([i \in 1..Len(A.array) |->
                        <<A.array[i][1], NpTranspose(A.array[i][2])>>]), PyNone)
  ELSE Raise("TypeError", "input needs to be an ensemble.Array")

(* Array.flatten *)
FlattenArray(self) ==
  ArrayInit("Array", self.ensemble,
    OrderedDict([i \in 1..Len(self.array) |->
                   <<self.array[i][1], NpFlatten(self.array[i][2])>>]), PyNone)

(* the block arrays a container holds, in the order of its buffers *)
Buffers(c) ==
  IF c.t \in {"Array", "EnsembleArray"} THEN ODValues(c.array)
  ELSE IF c.t = "EnsembleTriDiag" THEN ODValues(c.diag) \o ODValues(c.offdiag)
  ELSE <<>>

RECURSIVE OperandMem(_)
OperandMem(args) ==
  IF Len(args) = 0 THEN <<>> ELSE Buffers(args[1]) \o OperandMem(Tail(args))

ODIndex(od, k) == CHOOSE i \in 1..Len(od) : od[i][1] = k

FrameOps ==
  {"__add__", "__mul__", "__getitem__", "flatten", "transpose", "dot", "eig", "eigvals",
   "asarray", "eig0"}

(* the buffer of the first operand that data[block] of the n-th result     *)
(* refers to when it is handed to the constructor, 0 for a new array:      *)
(* arr[k] is a view for a slice and for an int index into two dimensions,  *)
(* np.transpose(arr) is a view, and eig and eigvals hand over              *)
(* self.diag[block] itself for a block of length 1                         *)
ViewSource(op, args, k, n, block) ==
  IF op = "__getitem__"
  THEN LET arr == ODGet(args[1].array, block)
       IN IF arr.shape[1] > 0 /\ (k.t = "slice" \/ (k.t = "int" /\ Ndim(arr) >= 2))
          THEN ODIndex(args[1].array, block) ELSE 0
  ELSE IF op = "transpose" THEN ODIndex(args[1].array, block)
  ELSE IF op \in {"eig", "eigvals"} /\ n = 1
  THEN IF Len(ODGet(args[1].diag, block).data) = 1
       THEN ODIndex(args[1].diag, block) ELSE 0
  ELSE 0

(* a constructor that keeps the array it is given *)
NpAsArrayStore(mem, src, value) ==
  IF src # 0 THEN [buf |-> src, mem |-> mem]
  ELSE [buf |-> Len(mem) + 1, mem |-> Append(mem, value)]

(* np.array(obj) of the constructors: a copy in a new buffer *)
NpArrayStore(mem, src, value) ==
  [buf |-> Len(mem) + 1, mem |-> Append(mem, value)]

(* for block, deg in ensemble: self.array[block] = np.array(data[block]) *)
RECURSIVE StoreBlocks(_, _, _, _, _, _, _)
StoreBlock(st, op, args, k, n, items, bufs) ==
  StoreBlocks(st.mem, op, args, k, n, items, Append(bufs, st.buf))

StoreBlocks(mem, op, args, k, n, items, bufs) ==
  IF Len(items) = 0 THEN [bufs |-> bufs, mem |-> mem]
  ELSE StoreBlock(NpArrayStore(mem, ViewSource(op, args, k, n, items[1][1]), items[1][2]),
                  op, args, k, n, Tail(items), bufs)

(* the block arrays of a returned container; a scalar container has none *)
ResultBlocks(c) == IF c.t \in {"Array", "EnsembleArray"} THEN c.array ELSE <<>>

Stored(v, st) == [out |-> v, bufs |-> st.bufs, mem |-> st.mem, written |-> FALSE]

(* eig builds the container of the eigenvalues, then that of the vectors *)
StoreSecond(v, st, op, args, k) ==
  Stored(v, StoreBlocks(st.mem, op, args, k, 2, ResultBlocks(v.value[2]), st.bufs))

StoreResult(v, mem0, op, args, k) ==
  IF ~IsOk(v) THEN [out |-> v, bufs |-> <<>>, mem |-> mem0, written |-> FALSE]
  ELSE IF op = "eig"
  THEN StoreSecond(v, StoreBlocks(mem0, op, args, k, 1, ResultBlocks(v.value[1]), <<>>),
                   op, args, k)
  ELSE Stored(v, StoreBlocks(mem0, op, args, k, 1, ResultBlocks(v.value), <<>>))

(* an operation on stored operands that returns or raises v: its outcome,  *)
(* the buffers of the block arrays of its result and the memory afterwards *)
FrameCall(op, v, args, k) ==
  StoreResult(v, OperandMem(args), op, args, k)

(* arr[...] = 99 *)
Overwritten(arr) == NdArray(arr.shape, [i \in 1..Len(arr.data) |-> Q(99)])

Frame(op, v, args, k) ==
  /\ call' = [op |-> op, args |-> args, k |-> k,
              ensemble |-> heap[args[1].ensemble.id]]
  /\ ret' = FrameCall(op, v, args, k)
  /\ heap' = heap

CallFrameAdd ==
  /\ Constructing
  /\ \E a \in AddContainers("Array"), other \in AddContainers("Array") \cup PlainNumbers :
       Frame("__add__", ArrayAdd(a, other), <<a, other>>, PyNone)

CallFrameMul ==
  /\ Constructing
  /\ \E a \in AddContainers("Array"), other \in AddContainers("Array") \cup PlainNumbers :
       Frame("__mul__", ArrayTimes("mul", a, other), <<a, other>>, PyNone)

CallFrameGetItem ==
  /\ Constructing
  /\ \E a \in IndexContainers("Array"), k \in {PyInt(0), PySlice(0, 1)} :
       Frame("__getitem__", ArrayGetItem(a, k), <<a>>, k)

CallFrameFlatten ==
  /\ Constructing
  /\ \E a \in IndexContainers("Array") :
       Frame("flatten", FlattenArray(a), <<a>>, PyNone)

CallFrameTranspose ==
  /\ Constructing
  /\ \E a \in IndexContainers("Array") :
       Frame("transpose", Transpose(a), <<a>>, PyNone)

CallFrameDot ==
  /\ Constructing
  /\ \E a \in AddContainers("Array"), b \in AddContainers("Array") :
       Frame("dot", Dot(a, b).out, <<a, b>>, PyNone)

CallFrameEig0 ==
  /\ Constructing
  /\ \E self \in TriDiagsOver :
       Frame("eig0", Eig0(self), <<self>>, PyNone)

CallFrameEig ==
  /\ Constructing
  /\ \E self \in TriDiagsOver :
       Frame("eig", Eig(self), <<self>>, PyNone)

CallFrameEigvals ==
  /\ Constructing
  /\ \E self \in TriDiagsOver :
       Frame("eigvals", Eigvals(self), <<self>>, PyNone)

CallFrameAsArray ==
  /\ Constructing
  /\ \E self \in TriDiagsOver :
       Frame("asarray", AsArray(self), <<self>>, PyNone)

(* a later in-place change of one block array of the returned container *)
WriteResult ==
  /\ call.op \in FrameOps
  /\ IsOk(ret.out)
  /\ ~ret.written
  /\ \E i \in 1..Len(ret.bufs) :
       ret' = [ret EXCEPT !.mem[ret.bufs[i]] = Overwritten(@), !.written = TRUE]
  /\ UNCHANGED <<heap, call>>

NextFrame ==
  \/ NewOneEnsemble
  \/ CallFrameAdd
  \/ CallFrameMul
  \/ CallFrameGetItem
  \/ CallFrameFlatten
  \/ CallFrameTranspose
  \/ CallFrameDot
  \/ CallFrameEig0
  \/ CallFrameEig
  \/ CallFrameEigvals
  \/ CallFrameAsArray
  \/ WriteResult

SpecFrame == Init /\ [][NextFrame]_vars

\* C14: after an operation (elementwise add and multiply, indexing, flatten, transpose,
\* dot, eig0, eig, eigvals, asarray), returned or raised, and after a later
\* in-place change of a block array of the returned container, every block
\* array of every operand and the operands' Ensemble are what they were
\* before, and no block array of the result occupies a buffer of an operand.
C14_OperandsUntouched ==
  call.op \in FrameOps =>
    LET mem0 == OperandMem(call.args)
    IN /\ SubSeq(ret.mem, 1, Len(mem0)) = mem0
       /\ heap[call.args[1].ensemble.id] = call.ensemble
       /\ \A i \in 1..Len(ret.bufs) : ret.bufs[i] > Len(mem0)

C14_Witness ==
  /\ call.op = "transpose"
  /\ ret.written
  /\ \E i \in 1..Len(ret.bufs) :
       /\ ViewSource(call.op, call.args, call.k, 1, call.args[1].array[i][1]) # 0
       /\ Len(ret.mem[ret.bufs[i]].data) > 0
       /\ ret.mem[ret.bufs[i]].data[1] = Q(99)

(***************************************************************************)
(* Sequences of container operations                                       *)
(***************************************************************************)
MaxSteps == 2

NewShareEnsemble ==
  \E args \in AlgArgLists : New(args, 1)

ContainerKinds == {"Array", "EnsembleArray", "Scalar", "EnsembleScalar"}

(* the constructor of class cls *)
ContainerInit(cls, ensemble, data) ==
  IF cls \in {"Array", "EnsembleArray"} THEN ArrayInit(cls, ensemble, data, PyNone)
  ELSE IF cls = "Scalar" THEN ScalarInit(ensemble, data, PyNone)
  ELSE EnsembleScalarInit(ensemble, data, PyNone)

(* a key that is the block of no Ensemble *)
ForeignBlock == <<StrX, StrX>>

(* mappings for Ensemble e, also with an entry for a foreign key in front *)
ShareData(e, vals) ==
  BlockData(e, vals)
    \cup {<< <<ForeignBlock, v>> >> \o od : od \in BlockData(e, vals), v \in vals}

ShareOps ==
  {"init", "add", "mul", "getitem", "flatten", "transpose", "dot",
   "eig", "eigvals", "asarray", "eig0"}

(* the containers an operation returned *)
Produced(op, out) ==
  IF ~IsOk(out) THEN {}
  ELSE IF op = "eig" THEN {out.value[1], out.value[2]}
  ELSE {out.value}

(* the per-block entries of a container *)
Entries(c) ==
  IF c.t \in {"Array", "EnsembleArray"} THEN c.array ELSE c.scalar

Share(op, v, a, b, steps) ==
  /\ call' = [op |-> op, e |-> a.ensemble, b |-> b, steps |-> steps]
  /\ ret' = v
  /\ heap' = heap

CallShareInit ==
  /\ Constructing
  /\ \E cls \in ContainerKinds, e \in 1..Len(heap) :
       \E od \in ShareData(e, IF cls \in {"Array", "EnsembleArray"}
                              THEN ArrVals ELSE ScalarVals) :
         /\ call' = [op |-> "init", e |-> EnsembleRef(e), b |-> PyNone, steps |-> 1]
         /\ ret' = ContainerInit(cls, EnsembleRef(e), OrderedDict(od))
         /\ heap' = heap

ShareSeconds(a) ==
  IF a.t = "Scalar" THEN ScalarsOver \cup {PyInt(3)}
  ELSE ArraysOver(a.t) \cup ScalarsOver \cup {PyInt(3)}

IsArrayKind(a) == a.t \in {"Array", "EnsembleArray"}

(* one operation with first operand a *)
ShareStep(a, steps) ==
  \/ /\ IsArrayKind(a)
     /\ \E b \in ShareSeconds(a) : Share("add", ArrayAdd(a, b), a, b, steps)
  \/ /\ IsArrayKind(a)
     /\ \E b \in ShareSeconds(a) : Share("mul", ContainerTimes("mul", a, b), a, b, steps)
  \/ /\ a.t = "Scalar"
     /\ \E b \in ShareSeconds(a) : Share("add", ScalarAdd(a, b), a, b, steps)
  \/ /\ a.t = "Scalar"
     /\ \E b \in ShareSeconds(a) : Share("mul", ScalarMul(a, b), a, b, steps)
  \/ /\ a.t = "Array"
     /\ Share("flatten", FlattenArray(a), a, PyNone, steps)
  \/ /\ a.t = "Array"
     /\ Share("transpose", Transpose(a), a, PyNone, steps)
  \/ /\ a.t = "Array"
     /\ \E k \in {PyInt(0), PySlice(0, 1)} : Share("getitem", ArrayGetItem(a, k), a, k, steps)
  \/ /\ a.t = "Array"
     /\ \E b \in ArraysOver("Array") : Share("dot", Dot(a, b).out, a, b, steps)

CallShareFirst ==
  /\ Constructing
  /\ \E a \in ArraysOver("Array") \cup ArraysOver("EnsembleArray") \cup ScalarsOver :
       ShareStep(a, 1)

CallShareEig0 ==
  /\ Constructing
  /\ \E a \in TriDiagsOver : Share("eig0", Eig0(a), a, PyNone, 1)

CallShareEig ==
  /\ Constructing
  /\ \E a \in TriDiagsOver : Share("eig", Eig(a), a, PyNone, 1)

CallShareEigvals ==
  /\ Constructing
  /\ \E a \in TriDiagsOver : Share("eigvals", Eigvals(a), a, PyNone, 1)

CallShareAsArray ==
  /\ Constructing
  /\ \E a \in TriDiagsOver : Share("asarray", AsArray(a), a, PyNone, 1)

(* an operation on a container that an earlier operation returned; the     *)
(* eigenvalues of a block are kept as terms, not numbers, and take part in *)
(* no further arithmetic here                                              *)
CallShareNext ==
  /\ call.op \in ShareOps \ {"eig", "eigvals", "eig0"}
  /\ call.steps < MaxSteps
  /\ \E a \in Produced(call.op, ret) : a.t # "EnsembleScalar" /\ ShareStep(a, call.steps + 1)

NextShare ==
  \/ NewShareEnsemble
  \/ CallShareInit
  \/ CallShareFirst
  \/ CallShareEig0
  \/ CallShareEig
  \/ CallShareEigvals
  \/ CallShareAsArray
  \/ CallShareNext

SpecShare == Init /\ [][NextShare]_vars

\* C15: every container that a constructor call or a sequence of container
\* operations returns references the very Ensemble E of the container the
\* sequence started from, and its entries are exactly the blocks of E, one
\* entry per block, in the order in which E iterates; keys of the source
\* mapping that are no blocks of E do not appear.
C15_SharesEnsemble ==
  call.op \in ShareOps =>
    \A c \in Produced(call.op, ret) :
      /\ c.t \in ContainerKinds
      /\ c.ensemble = call.e
      /\ ODKeys(Entries(c)) = ODKeys(EnsembleIter(heap[call.e.id]))

C15_Witness ==
  /\ call.op \in ShareOps \ {"init"}
  /\ call.steps = 2
  /\ Len(heap) = 2
  /\ Produced(call.op, ret) # {}
  /\ ODKeys(EnsembleIter(heap[call.e.id])) # heap[call.e.id].blocks
  /\ Len(heap[call.e.id].blocks) = 2

(***************************************************************************)
(* Construction of scalar containers with a tag and a dtype                *)
(***************************************************************************)
DtypeFloat == [t |-> "type", name |-> "float"]

(* dtype(dt) for dtype = float *)
Caster(dtype, dt) ==
  IF IsNumber(dt) THEN Ok(PyNum(NumQ(dt)))
  ELSE Raise("TypeError", "float() argument must be a string or a real number")

(* dt.item() *)
NpItem(dt) ==
  IF SizeOf(dt.shape) = 1 THEN Ok(PyNum(dt.data[1]))
  ELSE Raise("ValueError", "can only convert an array of size 1 to a Python scalar")

(* the value Scalar.__init__ stores for one block *)
ScalarStored(dt, dtype) ==
  IF dt.t = "None" THEN Ok(PyNone)
  ELSE IF dtype.t = "None"
  THEN IF dt.t = "ndarray" THEN NpItem(dt) ELSE Ok(dt)
  ELSE IF dt.t = "ndarray" THEN Bind(NpItem(dt), LAMBDA x : Caster(dtype, x))
  ELSE Caster(dtype, dt)

RECURSIVE ScalarInitLoop(_, _, _, _, _)
ScalarInitLoop(items, od, tag, dtype, acc) ==
  IF Len(items) = 0 THEN Ok(acc)
  ELSE IF tag.t # "None" /\ tag.t # "str"
  THEN Raise("TypeError", "tag needs to be a string")
  ELSE Bind(DataAt(od, items[1][1], tag),
            LAMBDA dt : Bind(ScalarStored(dt, dtype),
                             LAMBDA x : ScalarInitLoop(Tail(items), od, tag, dtype,
                                                       ODSet(acc, items[1][1], x))))

(* Scalar.__init__ *)
ScalarInitDtype(ensemble, data, tag, dtype) ==
  IF ensemble.t # "Ensemble"
  THEN Raise("TypeError", "ensemble is not of type pydiag.Ensemble")
  ELSE IF data.t \notin {"OrderedDict", "dict"}
  THEN Raise("TypeError", "data is not of dictionary type")
  ELSE Bind(ScalarInitLoop(EnsembleIter(heap[ensemble.id]), data.od, tag, dtype, <<>>),
            LAMBDA sc : Ok([t |-> "Scalar", ensemble |-> ensemble, scalar |-> sc]))

(* the value EnsembleScalar.__init__ stores for one block *)
EnsembleScalarStored(dt, dtype) ==
  IF dtype.t = "None" THEN Ok(dt) ELSE Caster(dtype, dt)

(* both loops of EnsembleScalar.__init__ read data[block] *)
RECURSIVE EnsembleScalarInitLoop(_, _, _, _)
EnsembleScalarInitLoop(items, od, dtype, acc) ==
  IF Len(items) = 0 THEN Ok(acc)
  ELSE Bind(DataAt(od, items[1][1], PyNone),
            LAMBDA dt : Bind(EnsembleScalarStored(dt, dtype),
                             LAMBDA x : EnsembleScalarInitLoop(Tail(items), od, dtype,
                                                               ODSet(acc, items[1][1], x))))

(* EnsembleScalar.__init__ *)
EnsembleScalarInitDtype(ensemble, data, tag, dtype) ==
  IF ensemble.t # "Ensemble"
  THEN Raise("TypeError", "ensemble is not of type pydiag.Ensemble")
  ELSE IF data.t \notin {"OrderedDict", "dict"}
  THEN Raise("TypeError", "data is not of dictionary type")
  ELSE IF tag.t # "None" /\ tag.t # "str"
  THEN Raise("TypeError", "tag needs to be a string")
  ELSE Bind(EnsembleScalarInitLoop(EnsembleIter(heap[ensemble.id]), data.od, dtype, <<>>),
            LAMBDA sc : Ok([t |-> "EnsembleScalar", ensemble |-> ensemble, scalar |-> sc]))

TagX == [t |-> "str", s |-> "x"]

SourceVals == {PyNone, PyInt(2), PyNum(<<1, 2>>)}

(* the values of SourceVals, as they are or under the key of the tag *)
TaggedVals(tag) ==
  IF tag.t = "None" THEN SourceVals
  ELSE {[t |-> "dict", od |-> << <<tag.s, v>> >>] : v \in SourceVals}

CallScalarInit ==
  /\ Constructing
  /\ \E cls \in {"Scalar", "EnsembleScalar"}, e \in 1..Len(heap),
        tag \in {PyNone, TagX}, dtype \in {PyNone, DtypeFloat} :
       \E od \in BlockData(e, TaggedVals(tag)) :
         /\ call' = [op |-> "scalar_init", cls |-> cls, ensemble |-> EnsembleRef(e),
                     data |-> OrderedDict(od), tag |-> tag, dtype |-> dtype]
         /\ ret' = IF cls = "Scalar"
                   THEN ScalarInitDtype(EnsembleRef(e), OrderedDict(od), tag, dtype)
                   ELSE EnsembleScalarInitDtype(EnsembleRef(e), OrderedDict(od), tag, dtype)
         /\ heap' = heap

NextScalarCtor == NewOneEnsemble \/ CallScalarInit

SpecScalarCtor == Init /\ [][NextScalarCtor]_vars

(* the source value of a block: data[block], or data[block][tag] *)
SourceOf(data, block, tag) ==
  IF tag.t = "None" THEN ODGet(data.od, block)
  ELSE ODGet(ODGet(data.od, block).od, tag.s)

(* None as it is, any other value through the caster when one is given *)
ExpectedScalar(src, dtype) ==
  IF src.t = "None" THEN PyNone
  ELSE IF dtype.t = "None" THEN src
  ELSE PyNum(NumQ(src))

\* C16: the constructor of Scalar and of EnsembleScalar, given a mapping that
\* has for every block a value (under the tag when a tag is given) that is
\* None or a number, returns a container that stores for every block, in
\* the order of the Ensemble, the source value data[block] or
\* data[block][tag]: None verbatim, any other value cast when a dtype is
\* given and as it is otherwise.
C16_ScalarConstruction ==
  call.op = "scalar_init" =>
    /\ IsOk(ret)
    /\ LET items == EnsembleIter(heap[call.ensemble.id])
       IN /\ Len(ret.value.scalar) = Len(items)
          /\ \A i \in 1..Len(items) :
               ret.value.scalar[i] =
                 <<items[i][1],
                   ExpectedScalar(SourceOf(call.data, items[i][1], call.tag), call.dtype)>>

(***************************************************************************)
(* Failures of the Ensemble constructor                                    *)
(***************************************************************************)
(* the elements of the iterable axes *)
AxisObjs(args) ==
  UNION {Range(IterItems(args[i])) : i \in {j \in 1..Len(args) : Iterable(args[j])}}

NotIterableAxis(args) == \E i \in 1..Len(args) : ~Iterable(args[i])

WrongArity(args) == \E obj \in AxisObjs(args) : obj.t = "tuple" /\ Len(obj.items) # 2

Uncoercible(args) ==
  \E obj \in AxisObjs(args) :
    obj.t = "tuple" /\ Len(obj.items) = 2 /\ ~IsOk(IntOf(obj.items[2]))

(* axis elements: a label, a tuple of length 1 and a pair whose degeneracy *)
(* is no integer                                                           *)
FailObjs ==
  {PyStr(StrA), PyTuple(<<PyStr(StrA)>>), PyTuple(<<PyStr(StrA), PyStr(StrX)>>)}

FailAxes ==
  {PyList(items) : items \in SeqsUpTo(FailObjs, MaxAxisLen)} \cup {PyInt(5)}

FailArgLists == SeqsUpTo(FailAxes, MaxAxes)

\* the one constructor call of a session of SpecEnsembleFail
NewFailEnsemble ==
  /\ call = NoCall
  /\ \E args \in FailArgLists, dd \in DefaultDegs : New(args, dd)

NextEnsembleFail == NewFailEnsemble \/ Iterate

SpecEnsembleFail == Init /\ [][NextEnsembleFail]_vars

\* C17 as stated: a constructor call with an axis that is not iterable, a
\* tuple whose length is not 2 or a degeneracy that is no integer raises
\* TypeError and produces no Ensemble.
C17_FailsWithTypeError ==
  (call.op = "Ensemble"
     /\ (NotIterableAxis(call.args) \/ WrongArity(call.args) \/ Uncoercible(call.args)))
    => ret.status = "TypeError" /\ heap = <<>>

\* C17 amended: such a call raises and produces no Ensemble; the exception
\* is ValueError only if some tuple has a length other than 2 and TypeError
\* only if some axis is not iterable or some degeneracy is no integer, so a
\* call whose only fault is a tuple of the wrong length raises ValueError.
C17_FailureKinds ==
  (call.op = "Ensemble"
     /\ (NotIterableAxis(call.args) \/ WrongArity(call.args) \/ Uncoercible(call.args)))
    => /\ ret.status \in {"TypeError", "ValueError"}
       /\ heap = <<>>
       /\ ret.status = "ValueError" => WrongArity(call.args)
       /\ ret.status = "TypeError" =>
            NotIterableAxis(call.args) \/ Uncoercible(call.args)

C17_Witness ==
  /\ call.op = "Ensemble"
  /\ WrongArity(call.args)
  /\ ~NotIterableAxis(call.args)
  /\ ~Uncoercible(call.args)
  /\ ret.status = "ValueError"
  /\ heap = <<>>

(***************************************************************************)
(* A Scalar times and divided by an Array                                  *)
(***************************************************************************)
(* the entries of a container as block arrays *)
BlockArrays(c) == IF c.t = "Scalar" THEN c.scalar ELSE c.array

\* C18: for a Scalar s without None entries and an Array A over the same
\* Ensemble, s * A and s / A return a container whose value at every block
\* is the value of s at that block multiplied by, respectively divided by,
\* the block array of A, in this order of the operands.
C18_ScalarKeepsOperandOrder ==
  (/\ call.op \in {"mul", "div"}
   /\ call.a.t = "Scalar"
   /\ call.other.t = "Array"
   /\ call.other.ensemble = call.a.ensemble
   /\ NoNone(call.a)) =>
    /\ IsOk(ret)
    /\ \A i \in 1..Len(call.a.scalar) :
         Ok(NpArray(ODGet(BlockArrays(ret.value), call.a.scalar[i][1])))
           = Elementwise(call.op, NpArray(call.a.scalar[i][2]),
                         ODGet(call.other.array, call.a.scalar[i][1]))

(***************************************************************************)
(* Negation of a Scalar                                                    *)
(***************************************************************************)
\* C19: -s for a Scalar s without None entries returns, without raising, a
\* new container over the Ensemble of s whose value at every block is the
\* negation of the value of s at that block.
C19_NegationReturns ==
  (call.op = "neg" /\ NoNone(call.a)) =>
    /\ IsOk(ret)
    /\ ret.value.ensemble = call.a.ensemble
    /\ \A i \in 1..Len(call.a.scalar) :
         NpArray(ODGet(BlockArrays(ret.value), call.a.scalar[i][1]))
           = NpArray(PyNum(QSub(Q(0), NumQ(call.a.scalar[i][2]))))

====
